---- MODULE Spec2Model ----
(***************************************************************************)
(* A model of the GPG orchestration core of yubikey-manager: the key       *)
(* listing parser, the master-key removal sequence (removeMasterKey), the  *)
(* token presence service (IsPresent / SupportsOpenPGP) with the workflows *)
(* that report its result, and the command executor's RunInteractive.      *)
(*                                                                         *)
(* Text is modelled as sequences: an identifier is a sequence of one       *)
(* character strings, an error is the sequence of its message layers       *)
(* (outermost first, the way fmt.Errorf("...: %w", err) nests them), a     *)
(* byte blob is a sequence of chunks (nil and empty are both << >>: the    *)
(* code only ever tests len).                                              *)
(***************************************************************************)
EXTENDS Integers, Sequences, FiniteSets, TLC

VARIABLES
    \* ---- removeMasterKey (internal/cli/helpers.go) and its caller ----
    pc,           \* position inside removeMasterKey / its caller
    fingerprint,  \* the argument of removeMasterKey
    listing,      \* what gpg --list-secret-keys printed
    keyID,        \* local keyID
    keys,         \* local keys (parsed listing)
    subkeys,      \* local subkeys
    publicKey,    \* local publicKey
    calls,        \* Key Directory Service calls issued so far, with outcome
    result,       \* the error returned (<< >> is nil), once pc is past the return
    logged,       \* what the operator has been shown (ui.LogWarning ...)
    masterPresent,\* whether the local key store holds the master key's secret material
    \* ---- capability parser (gpg package) ----
    capsIn,       \* argument of parseCapabilities
    capsOut,      \* [done, caps]: its result once called
    \* ---- command executor ----
    exName,       \* program name handed to the executor
    exOutcome,    \* what the child process does
    exTTY,        \* how the controlling terminal can be found
    exResult,     \* [done, how, tty, out, err]: the call made and what it returned
    \* ---- token presence service and the workflows using it ----
    wf,           \* the workflow that checks presence
    ppc,          \* position inside the workflow / IsPresent / SupportsOpenPGP
    ctx,          \* the context the workflow hands to the services
    pcalls,       \* commands run through the executor so far, with outcome
    statusErr,    \* IsPresent's local err (first card status query)
    sup,          \* [called, supports, err]: the result of SupportsOpenPGP
    isp,          \* [present, err]: the result of IsPresent
    report,       \* what the workflow tells the operator
    \* ---- key listing parser driven on its own ----
    klIn,         \* argument of parseKeyList (the lines of the listing)
    klOut,        \* [done, keys]: its result once called
    \* ---- card status parser driven on its own ----
    csIn,         \* argument of parseCardStatus (the lines of the status)
    csOut,        \* [done, info]: its result once called
    \* ---- Key Directory Service, one operation ----
    svOp,         \* the operation invoked
    svOutcome,    \* what the file system and the child process do
    svPc,         \* position inside the operation
    svTmp,        \* the files of the temporary directory
    svName,       \* tmpFile.Name() inside ImportKey
    svResult,     \* [done, err, execErr, out, keys]: what the operation returned
    \* ---- Backup Service ----
    clock,        \* time.Now() in seconds
    keyring,      \* the state of the key store the exports read
    bpc,          \* position inside CreateBackup
    bcount,       \* invocations of CreateBackup so far
    bstamp,       \* local timestamp (backupPath)
    bdirs,        \* the backup root: directory name -> its files
    breturned,    \* backup directories returned so far, as they were on return
    bresult,      \* [path, err] of the last CreateBackup
    \* ---- workflows: backup and destructive operations ----
    fw,           \* the workflow running
    fpc,          \* position inside it
    ftrace,       \* service operations issued so far, with outcome
    \* ---- runVerify: the signing subkey on the token ----
    selKeys,      \* local keys (the parsed listing)
    selInfo,      \* local cardInfo
    selOut,       \* [done, id]: local signingSubkeyID once the search is over
    \* ---- runCleanup: the interactive delete loop ----
    clPc,         \* position inside the loop
    clTyped,      \* local keyToDelete
    clCmds        \* gpg commands issued so far

rmkVars == <<pc, fingerprint, listing, keyID, keys, subkeys, publicKey, calls, result, logged,
             masterPresent>>
capVars == <<capsIn, capsOut>>
exVars == <<exName, exOutcome, exTTY, exResult>>
presVars == <<wf, ppc, ctx, pcalls, statusErr, sup, isp, report>>
klVars == <<klIn, klOut>>
csVars == <<csIn, csOut>>
svcVars == <<svOp, svOutcome, svPc, svTmp, svName, svResult>>
bkVars == <<clock, keyring, bpc, bcount, bstamp, bdirs, breturned, bresult>>
flowVars == <<fw, fpc, ftrace>>
selVars == <<selKeys, selInfo, selOut>>
clVars == <<clPc, clTyped, clCmds>>
vars == <<rmkVars, capVars, exVars, presVars, klVars, csVars, svcVars, bkVars, flowVars,
          selVars, clVars>>

\* what an action of one component leaves alone in the others
notRMK == <<capVars, exVars, presVars, klVars, csVars, svcVars, bkVars, flowVars, selVars, clVars>>
notCaps == <<rmkVars, exVars, presVars, klVars, csVars, svcVars, bkVars, flowVars, selVars, clVars>>
notExec == <<rmkVars, capVars, presVars, klVars, csVars, svcVars, bkVars, flowVars, selVars, clVars>>
notPresence == <<rmkVars, capVars, exVars, klVars, csVars, svcVars, bkVars, flowVars, selVars, clVars>>
notKeyList == <<rmkVars, capVars, exVars, presVars, csVars, svcVars, bkVars, flowVars, selVars, clVars>>
notCardStatus == <<rmkVars, capVars, exVars, presVars, klVars, svcVars, bkVars, flowVars, selVars, clVars>>
notService == <<rmkVars, capVars, exVars, presVars, klVars, csVars, bkVars, flowVars, selVars, clVars>>
notBackup == <<rmkVars, capVars, exVars, presVars, klVars, csVars, svcVars, flowVars, selVars, clVars>>
notFlow == <<rmkVars, capVars, exVars, presVars, klVars, csVars, svcVars, bkVars, selVars, clVars>>
notSelect == <<rmkVars, capVars, exVars, presVars, klVars, csVars, svcVars, bkVars, flowVars, clVars>>
notCleanup == <<rmkVars, capVars, exVars, presVars, klVars, csVars, svcVars, bkVars, flowVars, selVars>>

(***************************************************************************)
(* Bounds of the model.                                                    *)
(***************************************************************************)
MaxLines == 3
MaxCapsLen == 3
MaxExit == 4
MaxDur == 4

(***************************************************************************)
(* Generic helpers.                                                        *)
(***************************************************************************)
Range(s) == {s[i] : i \in 1..Len(s)}

SeqsUpTo(S, n) == UNION {[1..k -> S] : k \in 0..n}

\* strings.Contains on an error text: the text is the sequence of the
\* phrases of all its layers, a phrase occurs in it when it is one of them.
Contains(text, phrase) == phrase \in Range(text)

\* fmt.Errorf(msg + ": %w", err)
Wrap(msg, err) == <<msg>> \o err

NoError == << >>

(***************************************************************************)
(* Key listing parser (gpg package).  A line of `gpg --list-secret-keys`   *)
(* is a record of its tokens: head is the first word without its suffix    *)
(* character, suffix the character glued to it ("#": secret part offline,  *)
(* ">": on a card), keyid/caps/expires the tokens of a key line, rest the  *)
(* whitespace separated fields that follow a "card-no:" head.  The lines   *)
(* are already TrimSpace'd and non-blank.                                  *)
(***************************************************************************)
Line(h, sfx, id, cp, ex, rs) ==
    [head |-> h, suffix |-> sfx, keyid |-> id, caps |-> cp, expires |-> ex, rest |-> rs]

\* gpg.Key{} : the zero value
EmptyKey ==
    [Type |-> "", KeyID |-> << >>, Fingerprint |-> << >>, Capabilities |-> << >>,
     Expires |-> "", CardNo |-> << >>]

\* parseCapabilities without the case for 'C'
RECURSIVE parseCapabilities_noCertify(_)
parseCapabilities_noCertify(caps) ==
    IF caps = << >> THEN << >>
    ELSE LET char == caps[Len(caps)]
             before == parseCapabilities_noCertify(SubSeq(caps, 1, Len(caps) - 1))
         IN IF char \in {"S", "E", "A"} THEN Append(before, char) ELSE before

RECURSIVE parseCapabilities(_)
parseCapabilities(caps) ==
    IF caps = << >> THEN << >>
    ELSE LET char == caps[Len(caps)]
             before == parseCapabilities(SubSeq(caps, 1, Len(caps) - 1))
         IN CASE char = "S" -> Append(before, "S")
              [] char = "E" -> Append(before, "E")
              [] char = "A" -> Append(before, "A")
              [] char = "C" -> Append(before, "C")
              [] OTHER -> before

\* keyLineMatches with the marker's suffix character accepted, as if the
\* pattern began ^(sec|ssb)[#>]?\s+
keyLineMatches_suffixTolerant(line) ==
    /\ line.head \in {"sec", "ssb"}
    /\ line.keyid # << >>
    /\ line.caps # << >>

\* The regular expression ^(sec|ssb)\s+(\S+)/(\S+)\s+(\S+)\s+\[([^\]]+)\]...
\* matches when the marker word is followed by white space (no suffix
\* character), a key identifier follows the slash and the capability
\* bracket holds at least one character.
keyLineMatches(line) ==
    /\ line.head \in {"sec", "ssb"}
    /\ line.suffix = ""
    /\ line.keyid # << >>
    /\ line.caps # << >>

parseKeyLine(line) ==
    IF keyLineMatches(line)
    THEN [EmptyKey EXCEPT !.Type = line.head,
                          !.KeyID = line.keyid,
                          !.Capabilities = parseCapabilities(line.caps),
                          !.Expires = line.expires]
    ELSE EmptyKey

\* parseKeyList with currentKey left pointing at the first record
RECURSIVE parseKeyList_cardNoOnFirst(_)
parseKeyList_cardNoOnFirst(output) ==
    IF output = << >> THEN << >>
    ELSE LET line == output[Len(output)]
             keysSoFar == parseKeyList_cardNoOnFirst(SubSeq(output, 1, Len(output) - 1))
         IN IF line.head \in {"sec", "ssb"}
            THEN Append(keysSoFar, parseKeyLine(line))
            ELSE IF line.head = "card-no:" /\ keysSoFar # << >> /\ Len(line.rest) >= 1
            THEN [keysSoFar EXCEPT ![1].CardNo = line.rest]
            ELSE keysSoFar

RECURSIVE parseKeyList(_)
parseKeyList(output) ==
    IF output = << >> THEN << >>
    ELSE LET line == output[Len(output)]
             keysSoFar == parseKeyList(SubSeq(output, 1, Len(output) - 1))
         IN IF line.head \in {"sec", "ssb"}
            THEN Append(keysSoFar, parseKeyLine(line))
            ELSE IF line.head = "card-no:" /\ keysSoFar # << >> /\ Len(line.rest) >= 1
            THEN [keysSoFar EXCEPT ![Len(keysSoFar)].CardNo = line.rest]
            ELSE keysSoFar

(***************************************************************************)
(* Identifiers and listing lines used as inputs (the fixtures of           *)
(* TestRemoveMasterKey).                                                   *)
(***************************************************************************)
PrimaryKeyID == <<"A","B","C","1","2","3","D","E","F","4","5","6","7","8","9","0">>

PrimaryFingerprint ==
    <<"F","A","5","7","C","8","5","1","3","1","F","1","1","B","2","8",
      "E","E","2","3","6","A","4","F">> \o PrimaryKeyID

SubkeyID == <<"1","2","3","4","5","6","7","8","9","0","A","B","C","D","E","F">>

Fingerprints == {PrimaryKeyID, PrimaryFingerprint}

LineAlphabet ==
    { Line("sec", "", PrimaryKeyID, <<"S", "C">>, "2030-09-04", << >>),
      Line("sec", "#", PrimaryKeyID, <<"S", "C">>, "2030-09-04", << >>),
      Line("ssb", "", SubkeyID, <<"E">>, "2030-09-04", << >>),
      Line("ssb", ">", SubkeyID, <<"S">>, "", << >>),
      Line("card-no:", "", << >>, << >>, "", <<"0006", "12345678">>),
      Line("uid", "", << >>, << >>, "", << >>) }

Listings == SeqsUpTo(LineAlphabet, MaxLines)

\* what gpg can list of a key store: a primary key line reads "sec" when the
\* secret material of the master key is in the store and "sec#" when it is
\* not; the listing has no primary key line when the filter matches nothing
ListingsOf(present) ==
    {l \in Listings : \A i \in 1..Len(l) : l[i].head = "sec" => ((l[i].suffix = "") <=> present)}

(***************************************************************************)
(* Key Directory Service (internal/gpg/gpg.go).  The executor is the       *)
(* environment: each Run either yields output or fails.  A service call    *)
(* is given the executor's answer `r` = [err, out] and returns [err, out]. *)
(***************************************************************************)
ExecFailure == <<"command failed with exit code 2">>

RunAnswers(outs) ==
    {[err |-> NoError, out |-> o] : o \in outs} \cup {[err |-> ExecFailure, out |-> << >>]}

\* ListSecretKeys treating an empty list as a failure
ListSecretKeys_emptyIsError(r) ==
    IF r.err # NoError \/ parseKeyList(r.out) = << >>
    THEN [err |-> Wrap("failed to list secret keys", r.err), keys |-> << >>]
    ELSE [err |-> NoError, keys |-> parseKeyList(r.out)]

ListSecretKeys(r) ==
    IF r.err # NoError
    THEN [err |-> Wrap("failed to list secret keys", r.err), keys |-> << >>]
    ELSE [err |-> NoError, keys |-> parseKeyList(r.out)]

ExportPublicKey(r) ==
    IF r.err # NoError
    THEN [err |-> Wrap("failed to export public key", r.err), out |-> << >>]
    ELSE [err |-> NoError, out |-> r.out]

ExportSecretSubkeys(r) ==
    IF r.err # NoError
    THEN [err |-> Wrap("failed to export secret subkeys", r.err), out |-> << >>]
    ELSE [err |-> NoError, out |-> r.out]

DeleteSecretKey(r) ==
    IF r.err # NoError THEN Wrap("failed to delete secret key", r.err) ELSE NoError

\* ImportKey: what can go wrong is the creation of the temporary file, the
\* write of the key data, and gpg --import itself.
ImportOutcomes == {"ok", "createTempFails", "writeFails", "importFails"}

ImportKey(o) ==
    CASE o = "createTempFails" -> <<"failed to create temp file", "os error">>
      [] o = "writeFails" -> <<"failed to write key data", "os error">>
      [] o = "importFails" -> Wrap("failed to import key", ExecFailure)
      [] OTHER -> NoError

(***************************************************************************)
(* removeMasterKey (internal/cli/helpers.go), one action per call of the   *)
(* Key Directory Service, followed by the caller's handling of the         *)
(* returned error (runExtend).                                             *)
(***************************************************************************)
KeyIDLen == 16

keyIDOf(fpr) == IF Len(fpr) > KeyIDLen THEN SubSeq(fpr, 1, KeyIDLen) ELSE fpr

\* strings.HasSuffix(key.Type, "#")
HasHashSuffix(type) == type \in {"sec#", "ssb#", "#"}

hasMasterOnMachine(ks) ==
    \E i \in 1..Len(ks) : ks[i].Type = "sec" /\ ~HasHashSuffix(ks[i].Type)

Call(op, arg, err) == [op |-> op, arg |-> arg, err |-> err]

Blobs == {<< >>, <<"data">>}

\* lines 20-36: after the listing
onList(err, ks) ==
    IF err # NoError
    THEN [pc |-> "returned", result |-> Wrap("failed to list keys", err)]
    ELSE IF ~hasMasterOnMachine(ks)
    THEN [pc |-> "returned", result |-> NoError]
    ELSE [pc |-> "exportSubkeys", result |-> NoError]

\* onExportSubkeys going straight to the delete
onExportSubkeys_skipsPublicExport(err, out) ==
    [pc |-> "delete", subkeys |-> IF err # NoError THEN << >> ELSE out]

\* onExportSubkeys giving up when the export failed
onExportSubkeys_aborts(err, out) ==
    [pc |-> IF err # NoError THEN "returned" ELSE "exportPublic", subkeys |-> out]

\* lines 40-43: after the subkey export
onExportSubkeys(err, out) ==
    [pc |-> "exportPublic", subkeys |-> IF err # NoError THEN << >> ELSE out]

\* onExportPublic tolerating the failure the way the subkey export does
onExportPublic_continues(err) == [pc |-> "delete", result |-> NoError]

\* lines 47-49: after the public key export
onExportPublic(err) ==
    IF err # NoError
    THEN [pc |-> "returned", result |-> Wrap("failed to export public key", err)]
    ELSE [pc |-> "delete", result |-> NoError]

\* onDelete tolerating the failure
onDelete_continues(err) == [pc |-> "importPublic", result |-> NoError]

\* lines 52-54: after the delete
onDelete(err) ==
    IF err # NoError
    THEN [pc |-> "returned", result |-> Wrap("failed to delete secret key", err)]
    ELSE [pc |-> "importPublic", result |-> NoError]

\* lines 57-59: after the re-import of the public key
onImportPublic(err) ==
    IF err # NoError
    THEN [pc |-> "returned", result |-> Wrap("failed to import public key", err)]
    ELSE [pc |-> "importSubkeys", result |-> NoError]

\* reimportsSubkeys without the test of line 62
reimportsSubkeys_always(sk) == TRUE

\* line 62: whether the subkeys are imported again
reimportsSubkeys(sk) == Len(sk) > 0

\* lines 63-69: after the re-import of the subkeys; the branch that
\* receives its error is empty
onImportSubkeys(err) == [pc |-> "returned", result |-> NoError, logged |-> << >>]

InitRMK ==
    /\ pc = "start"
    /\ fingerprint \in Fingerprints
    /\ listing = << >>
    /\ keyID = << >>
    /\ keys = << >>
    /\ subkeys = << >>
    /\ publicKey = << >>
    /\ calls = << >>
    /\ result = NoError
    /\ logged = << >>
    /\ masterPresent \in BOOLEAN

\* lines 13-36
RMK_List ==
    /\ pc = "start"
    /\ \E r \in RunAnswers(ListingsOf(masterPresent)) :
          LET id == keyIDOf(fingerprint)
              got == ListSecretKeys(r)
              to == onList(got.err, got.keys)
          IN /\ listing' = r.out
             /\ keyID' = id
             /\ calls' = Append(calls, Call("ListSecretKeys", id, got.err))
             /\ keys' = got.keys
             /\ result' = to.result
             /\ pc' = to.pc
    /\ UNCHANGED <<fingerprint, subkeys, publicKey, logged, masterPresent>>
    /\ UNCHANGED notRMK

\* lines 38-43
RMK_ExportSubkeys ==
    /\ pc = "exportSubkeys"
    /\ \E r \in RunAnswers(Blobs) :
          LET got == ExportSecretSubkeys(r)
              to == onExportSubkeys(got.err, got.out)
          IN /\ calls' = Append(calls, Call("ExportSecretSubkeys", keyID, got.err))
             /\ subkeys' = to.subkeys
             /\ pc' = to.pc
    /\ UNCHANGED <<fingerprint, listing, keyID, keys, publicKey, result, logged, masterPresent>>
    /\ UNCHANGED notRMK

\* lines 45-49
RMK_ExportPublic ==
    /\ pc = "exportPublic"
    /\ \E r \in RunAnswers(Blobs) :
          LET got == ExportPublicKey(r)
              to == onExportPublic(got.err)
          IN /\ calls' = Append(calls, Call("ExportPublicKey", keyID, got.err))
             /\ publicKey' = got.out
             /\ result' = to.result
             /\ pc' = to.pc
    /\ UNCHANGED <<fingerprint, listing, keyID, keys, subkeys, logged, masterPresent>>
    /\ UNCHANGED notRMK

\* lines 51-54
RMK_Delete ==
    /\ pc = "delete"
    /\ \E r \in RunAnswers({<< >>}) :
          LET err == DeleteSecretKey(r)
              to == onDelete(err)
          IN /\ calls' = Append(calls, Call("DeleteSecretKey", fingerprint, err))
             /\ masterPresent' = IF err = NoError THEN FALSE ELSE masterPresent
             /\ result' = to.result
             /\ pc' = to.pc
    /\ UNCHANGED <<fingerprint, listing, keyID, keys, subkeys, publicKey, logged>>
    /\ UNCHANGED notRMK

\* lines 56-59
RMK_ImportPublic ==
    /\ pc = "importPublic"
    /\ \E o \in ImportOutcomes :
          LET err == ImportKey(o)
              to == onImportPublic(err)
          IN /\ calls' = Append(calls, Call("ImportKey", publicKey, err))
             /\ result' = to.result
             /\ pc' = to.pc
    /\ UNCHANGED <<fingerprint, listing, keyID, keys, subkeys, publicKey, logged, masterPresent>>
    /\ UNCHANGED notRMK

\* lines 61-69
RMK_ImportSubkeys ==
    /\ pc = "importSubkeys"
    /\ \/ /\ reimportsSubkeys(subkeys)
          /\ \E o \in ImportOutcomes :
                LET err == ImportKey(o)
                    to == onImportSubkeys(err)
                IN /\ calls' = Append(calls, Call("ImportKey", subkeys, err))
                   /\ result' = to.result
                   /\ logged' = logged \o to.logged
                   /\ pc' = to.pc
       \/ /\ ~reimportsSubkeys(subkeys)
          /\ calls' = calls
          /\ result' = NoError
          /\ logged' = logged
          /\ pc' = "returned"
    /\ UNCHANGED <<fingerprint, listing, keyID, keys, subkeys, publicKey, masterPresent>>
    /\ UNCHANGED notRMK

\* runExtend, internal/cli/extend.go lines 107-109
RMK_CallerReports ==
    /\ pc = "returned"
    /\ logged' = IF result # NoError
                 THEN logged \o Wrap("Failed to remove master key", result)
                 ELSE logged
    /\ pc' = "done"
    /\ UNCHANGED <<fingerprint, listing, keyID, keys, subkeys, publicKey, calls, result, masterPresent>>
    /\ UNCHANGED notRMK

NextRMK ==
    \/ RMK_List
    \/ RMK_ExportSubkeys
    \/ RMK_ExportPublic
    \/ RMK_Delete
    \/ RMK_ImportPublic
    \/ RMK_ImportSubkeys
    \/ RMK_CallerReports

(***************************************************************************)
(* Command executor (executor package, RealExecutor).  A child process     *)
(* either cannot be launched or exits with a code, having written stdout   *)
(* and stderr.                                                             *)
(***************************************************************************)
Exit(code, out, errText) == [kind |-> "exit", code |-> code, stdout |-> out, stderr |-> errText]

LaunchFails == [kind |-> "launchFails", code |-> 0, stdout |-> << >>, stderr |-> << >>]

\* RealExecutor.Run
Run(o) ==
    IF o.kind = "launchFails"
    THEN [out |-> << >>, err |-> <<"failed to execute command", "executable file not found">>]
    ELSE IF o.code = 0
    THEN [out |-> o.stdout, err |-> NoError]
    ELSE IF o.stderr # << >>
    THEN [out |-> o.stdout,
          err |-> <<"command failed with exit code", ToString(o.code)>> \o o.stderr \o <<"exit status">>]
    ELSE [out |-> o.stdout,
          err |-> <<"command failed with exit code", ToString(o.code), "exit status">>]

\* GPG_TTY handed to the child: the link target of /dev/fd/0, else the
\* caller's GPG_TTY, else /dev/tty.
TTYSources == {"readlink", "environment", "neither"}

gpgTTY(src) ==
    CASE src = "readlink" -> "link target of /dev/fd/0"
      [] src = "environment" -> "inherited GPG_TTY"
      [] OTHER -> "/dev/tty"

BenignExitCode == 2

\* RunInteractive with the exit code 2 carve-out applied to every program
RunInteractive_anyProgram(name, o, src) ==
    [tty |-> gpgTTY(src),
     err |-> IF o.kind = "launchFails"
             THEN <<"failed to execute command", "executable file not found">>
             ELSE IF o.code = 0 \/ o.code = 2
             THEN NoError
             ELSE <<"command failed with exit code", ToString(o.code), "exit status">>]

\* RealExecutor.RunInteractive
RunInteractive(name, o, src) ==
    [tty |-> gpgTTY(src),
     err |-> IF o.kind = "launchFails"
             THEN <<"failed to execute command", "executable file not found">>
             ELSE IF o.code = 0
             THEN NoError
             ELSE IF name = "gpg" /\ o.code = BenignExitCode
             THEN NoError
             ELSE <<"command failed with exit code", ToString(o.code), "exit status">>]

Programs == {"gpg", "git", "ykman", "gpg2"}

StderrTexts == {<< >>, <<"gpg: no such key">>}

ProcessOutcomes ==
    {LaunchFails} \cup {Exit(c, << >>, e) : c \in 0..MaxExit, e \in StderrTexts}

NoExecResult == [done |-> FALSE, how |-> "", tty |-> "", out |-> << >>, err |-> NoError]

InitExec ==
    /\ exName \in Programs
    /\ exOutcome \in ProcessOutcomes
    /\ exTTY \in TTYSources
    /\ exResult = NoExecResult

Exec_Run ==
    /\ ~exResult.done
    /\ LET got == Run(exOutcome)
       IN exResult' = [done |-> TRUE, how |-> "Run", tty |-> "",
                       out |-> got.out, err |-> got.err]
    /\ UNCHANGED <<exName, exOutcome, exTTY>>
    /\ UNCHANGED notExec

Exec_RunInteractive ==
    /\ ~exResult.done
    /\ LET got == RunInteractive(exName, exOutcome, exTTY)
       IN exResult' = [done |-> TRUE, how |-> "RunInteractive", tty |-> got.tty,
                       out |-> << >>, err |-> got.err]
    /\ UNCHANGED <<exName, exOutcome, exTTY>>
    /\ UNCHANGED notExec

NextExec == Exec_Run \/ Exec_RunInteractive

(***************************************************************************)
(* Capability parser driven on its own: every capability string over a     *)
(* small alphabet, up to MaxCapsLen characters.                            *)
(***************************************************************************)
CapChars == {"S", "E", "A", "C", "Z", "s"}

NoCaps == [done |-> FALSE, caps |-> << >>]

InitCaps ==
    /\ capsIn \in SeqsUpTo(CapChars, MaxCapsLen)
    /\ capsOut = NoCaps

Caps_Parse ==
    /\ ~capsOut.done
    /\ capsOut' = [done |-> TRUE, caps |-> parseCapabilities(capsIn)]
    /\ UNCHANGED capsIn
    /\ UNCHANGED notCaps

NextCaps == Caps_Parse

(***************************************************************************)
(* Token presence service (yubikey package) and the workflows that report  *)
(* its result.  Every external command takes `dur` seconds; the context    *)
(* of a workflow may carry a deadline (runVerify: DetectTimeout seconds),  *)
(* past which exec.CommandContext kills the child.                         *)
(***************************************************************************)
DetectTimeout == 3

Workflows == {"verify", "moveSubkey", "status"}

\* cmd.Context() of a cobra command run by rootCmd.Execute(): no deadline.
Background == [deadline |-> FALSE, left |-> 0, expired |-> FALSE]

\* context.WithTimeout(ctx, 3*time.Second)
WithTimeout(c, secs) == [deadline |-> TRUE, left |-> secs, expired |-> FALSE]

\* ctx.Err() == context.DeadlineExceeded
DeadlineExceeded(c) == c.deadline /\ c.expired

\* RealExecutor.Run under a context: exec.CommandContext refuses to start a
\* child once the context is done, and kills a child that outlives it.
RunCtx(c, o, dur) ==
    IF DeadlineExceeded(c)
    THEN [r |-> [out |-> << >>,
                 err |-> <<"failed to execute command", "context deadline exceeded">>],
          ctx |-> c, killed |-> FALSE, took |-> 0]
    ELSE IF o.kind = "launchFails"
    THEN [r |-> Run(o), ctx |-> c, killed |-> FALSE, took |-> 0]
    ELSE IF c.deadline /\ dur > c.left
    THEN [r |-> [out |-> << >>, err |-> Run(Exit(0 - 1, << >>, o.stderr)).err],
          ctx |-> [c EXCEPT !.left = 0, !.expired = TRUE], killed |-> TRUE,
          took |-> c.left]
    ELSE [r |-> Run(o),
          ctx |-> IF c.deadline THEN [c EXCEPT !.left = c.left - dur] ELSE c,
          killed |-> FALSE, took |-> dur]

\* gpg.Service.CardStatus, as far as its error goes (IsPresent and
\* SupportsOpenPGP discard the parsed card info).
CardStatus(r) ==
    IF r.err # NoError THEN Wrap("failed to get card status", r.err) ELSE NoError

\* yubikey.Service.GetCardInfo
GetCardInfo(r) ==
    IF CardStatus(r) # NoError THEN Wrap("failed to get card info", CardStatus(r)) ELSE NoError

NotSupportedByDevice == "Operation not supported by device"
CardNotAvailable == "OpenPGP card not available"

CardStatusOutcomes ==
    { LaunchFails,
      Exit(0, <<"Reader ...........: Yubico YubiKey">>, << >>),
      Exit(2, << >>, <<"gpg: selecting card failed: No such device">>),
      Exit(2, << >>, <<"gpg: selecting card failed:", NotSupportedByDevice>>),
      Exit(2, << >>, <<"gpg:", CardNotAvailable, ": No such device">>) }

\* A line of `ykman info`: its first word and the marker phrases it holds.
YkLine(h, ms) == [head |-> h, markers |-> ms]

YkLines ==
    { YkLine("Device type:", {}),
      YkLine("OpenPGP", {}),
      YkLine("OpenPGP", {"Enabled"}),
      YkLine("OpenPGP", {"Available"}),
      YkLine("OpenPGP", {"Not available"}),
      YkLine("OpenPGP", {"Disabled"}),
      YkLine("OpenPGP", {"Enabled", "Disabled"}) }

MaxYkLines == 2

YkmanOutcomes ==
    {LaunchFails, Exit(1, << >>, <<"ykman: no YubiKey detected">>)}
        \cup {Exit(0, out, << >>) : out \in SeqsUpTo(YkLines, MaxYkLines)}

Durations == 0..MaxDur

\* statusBlocked without the second error text
statusBlocked_onlyNotSupported(errStr) == Contains(errStr, NotSupportedByDevice)

\* lines 53-54 of IsPresent
statusBlocked(errStr) ==
    Contains(errStr, NotSupportedByDevice) \/ Contains(errStr, CardNotAvailable)

NotSupportedErr ==
    <<"YubiKey detected but", "does not support OpenPGP",
      "Only YubiKey 4, 5, and some NEO models support OpenPGP.">>

NotInitializedErr ==
    <<"YubiKey detected but", "not initialized for OpenPGP",
      "Please initialize it first using 'gpg --card-edit' or 'ykman openpgp reset'">>

UnableToDetermineErr ==
    <<"unable to determine if YubiKey supports OpenPGP",
      "Try: gpg --card-status or install ykman and run: ykman info">>

\* lines 56-63 of IsPresent: what it returns once SupportsOpenPGP has answered
isPresentAfterProbe(supports, supportErr) ==
    IF supportErr = NoError /\ ~supports
    THEN [present |-> FALSE, err |-> NotSupportedErr]
    ELSE [present |-> FALSE, err |-> NotInitializedErr]

\* ykmanVerdict with the two tests of a line in the other order
RECURSIVE ykmanVerdict_positiveFirst(_)
ykmanVerdict_positiveFirst(lines) ==
    IF lines = << >> THEN "none"
    ELSE LET line == Head(lines)
         IN IF line.head = "OpenPGP"
                 /\ ("Enabled" \in line.markers \/ "Available" \in line.markers)
            THEN "supported"
            ELSE IF line.head = "OpenPGP"
                 /\ ("Not available" \in line.markers \/ "Disabled" \in line.markers)
            THEN "unsupported"
            ELSE ykmanVerdict_positiveFirst(Tail(lines))

\* lines 96-109 of SupportsOpenPGP: the scan of the ykman output; "none"
\* when no OpenPGP line decides.
RECURSIVE ykmanVerdict(_)
ykmanVerdict(lines) ==
    IF lines = << >> THEN "none"
    ELSE LET line == Head(lines)
         IN IF line.head = "OpenPGP"
                 /\ ("Not available" \in line.markers \/ "Disabled" \in line.markers)
            THEN "unsupported"
            ELSE IF line.head = "OpenPGP"
                 /\ ("Enabled" \in line.markers \/ "Available" \in line.markers)
            THEN "supported"
            ELSE ykmanVerdict(Tail(lines))

\* lines 118-136 of SupportsOpenPGP: the fallback on the card status error
supportsFromCardStatus(err) ==
    IF err = NoError
    THEN [called |-> TRUE, supports |-> TRUE, err |-> NoError]
    ELSE IF Contains(err, NotSupportedByDevice)
    THEN [called |-> TRUE, supports |-> FALSE, err |-> UnableToDetermineErr]
    ELSE [called |-> TRUE, supports |-> FALSE,
          err |-> Wrap("unable to check OpenPGP support", err)]

\* a command run through the executor: what it returned, how long it ran
\* and whether the context's deadline killed it
PCall(cmd, out, err, took, killed) ==
    [cmd |-> cmd, out |-> out, err |-> err, took |-> took, killed |-> killed]

NoSup == [called |-> FALSE, supports |-> FALSE, err |-> NoError]
NoIsp == [present |-> FALSE, err |-> NoError]

InitPresence ==
    /\ wf \in Workflows
    /\ ppc = "isPresent"
    /\ ctx = IF wf = "verify" THEN WithTimeout(Background, DetectTimeout) ELSE Background
    /\ pcalls = << >>
    /\ statusErr = NoError
    /\ sup = NoSup
    /\ isp = NoIsp
    /\ report = << >>

\* IsPresent, lines 49-54 and 65-68
P_CardStatus ==
    /\ ppc = "isPresent"
    /\ \E o \in CardStatusOutcomes, dur \in Durations :
          LET run == RunCtx(ctx, o, dur)
              err == CardStatus(run.r)
          IN /\ ctx' = run.ctx
             /\ pcalls' = Append(pcalls, PCall("gpg --card-status", run.r.out, run.r.err, run.took, run.killed))
             /\ statusErr' = err
             /\ IF err = NoError
                THEN /\ isp' = [present |-> TRUE, err |-> NoError]
                     /\ ppc' = "workflow"
                ELSE IF statusBlocked(err)
                THEN /\ isp' = isp
                     /\ ppc' = "supportsYkman"
                ELSE /\ isp' = [present |-> FALSE, err |-> NoError]
                     /\ ppc' = "workflow"
    /\ UNCHANGED <<wf, sup, report>>
    /\ UNCHANGED notPresence

\* SupportsOpenPGP, lines 91-111, and the return of IsPresent when ykman decides
P_Ykman ==
    /\ ppc = "supportsYkman"
    /\ \E o \in YkmanOutcomes, dur \in Durations :
          LET run == RunCtx(ctx, o, dur)
              verdict == IF run.r.err = NoError THEN ykmanVerdict(run.r.out) ELSE "none"
          IN /\ ctx' = run.ctx
             /\ pcalls' = Append(pcalls, PCall("ykman info", run.r.out, run.r.err, run.took, run.killed))
             /\ IF verdict = "none"
                THEN /\ sup' = sup
                     /\ isp' = isp
                     /\ ppc' = "supportsCardStatus"
                ELSE /\ sup' = [called |-> TRUE, supports |-> (verdict = "supported"),
                                err |-> NoError]
                     /\ isp' = isPresentAfterProbe(verdict = "supported", NoError)
                     /\ ppc' = "workflow"
    /\ UNCHANGED <<wf, statusErr, report>>
    /\ UNCHANGED notPresence

\* SupportsOpenPGP, lines 113-137, and the return of IsPresent
P_SupportsCardStatus ==
    /\ ppc = "supportsCardStatus"
    /\ \E o \in CardStatusOutcomes, dur \in Durations :
          LET run == RunCtx(ctx, o, dur)
              got == supportsFromCardStatus(CardStatus(run.r))
          IN /\ ctx' = run.ctx
             /\ pcalls' = Append(pcalls, PCall("gpg --card-status", run.r.out, run.r.err, run.took, run.killed))
             /\ sup' = got
             /\ isp' = isPresentAfterProbe(got.supports, got.err)
    /\ ppc' = "workflow"
    /\ UNCHANGED <<wf, statusErr, report>>
    /\ UNCHANGED notPresence

NoYubiKeyMsg == "No YubiKey detected"

\* runVerify, internal/cli/setup_batch.go lines 325-398
W_Verify ==
    /\ ppc = "workflow"
    /\ wf = "verify"
    /\ \/ /\ isp.err = NoError /\ isp.present
          /\ \E o \in CardStatusOutcomes, dur \in Durations :
                LET run == RunCtx(ctx, o, dur)
                    err == GetCardInfo(run.r)
                IN /\ ctx' = run.ctx
                   /\ pcalls' = Append(pcalls, PCall("gpg --card-status", run.r.out, run.r.err, run.took, run.killed))
                   /\ report' = IF err = NoError
                                THEN <<"OK (serial)">>
                                ELSE IF DeadlineExceeded(run.ctx)
                                THEN <<"TIMEOUT (GPG may be waiting for input)",
                                       "gpg --card-status timed out">>
                                ELSE <<"OK (unable to get card info)">>
       \/ /\ ~(isp.err = NoError /\ isp.present)
          /\ report' = IF DeadlineExceeded(ctx)
                       THEN <<"TIMEOUT (GPG may be waiting for input)",
                              "YubiKey detection timed out">>
                       ELSE <<"NOT PRESENT">>
          /\ UNCHANGED <<ctx, pcalls>>
    /\ ppc' = "done"
    /\ UNCHANGED <<wf, statusErr, sup, isp>>
    /\ UNCHANGED notPresence

\* runMoveSubkey, lines 36-77
W_MoveSubkey ==
    /\ ppc = "workflow"
    /\ wf = "moveSubkey"
    /\ \/ /\ isp.err # NoError
          /\ report' = isp.err \o
                       (IF Contains(isp.err, "does not support OpenPGP")
                        THEN <<"This YubiKey model may not support OpenPGP functionality.">>
                        ELSE <<"To initialize a blank YubiKey for OpenPGP:">>)
          /\ UNCHANGED <<ctx, pcalls>>
       \/ /\ isp.err = NoError /\ ~isp.present
          /\ report' = <<NoYubiKeyMsg, "Please insert a YubiKey and try again.">>
          /\ UNCHANGED <<ctx, pcalls>>
       \/ /\ isp.err = NoError /\ isp.present
          /\ \E o \in CardStatusOutcomes, dur \in Durations :
                LET run == RunCtx(ctx, o, dur)
                    err == GetCardInfo(run.r)
                IN /\ ctx' = run.ctx
                   /\ pcalls' = Append(pcalls, PCall("gpg --card-status", run.r.out, run.r.err, run.took, run.killed))
                   /\ report' = IF err = NoError
                                THEN <<"Detected YubiKey with serial">>
                                ELSE Wrap("failed to get card info", err)
    /\ ppc' = "done"
    /\ UNCHANGED <<wf, statusErr, sup, isp>>
    /\ UNCHANGED notPresence

\* runStatus, internal/cli/status.go lines 72-93
W_Status ==
    /\ ppc = "workflow"
    /\ wf = "status"
    /\ \/ /\ isp.err # NoError
          /\ report' = Wrap("Failed to check YubiKey", isp.err)
          /\ UNCHANGED <<ctx, pcalls>>
       \/ /\ isp.err = NoError /\ isp.present
          /\ \E o \in CardStatusOutcomes, dur \in Durations :
                LET run == RunCtx(ctx, o, dur)
                    err == GetCardInfo(run.r)
                IN /\ ctx' = run.ctx
                   /\ pcalls' = Append(pcalls, PCall("gpg --card-status", run.r.out, run.r.err, run.took, run.killed))
                   /\ report' = IF err = NoError
                                THEN <<"YubiKey detected!">>
                                ELSE Wrap("Failed to get card info", err)
       \/ /\ isp.err = NoError /\ ~isp.present
          /\ report' = <<NoYubiKeyMsg>>
          /\ UNCHANGED <<ctx, pcalls>>
    /\ ppc' = "done"
    /\ UNCHANGED <<wf, statusErr, sup, isp>>
    /\ UNCHANGED notPresence

NextPresence ==
    \/ P_CardStatus
    \/ P_Ykman
    \/ P_SupportsCardStatus
    \/ W_Verify
    \/ W_MoveSubkey
    \/ W_Status

(***************************************************************************)
(* Key listing parser driven on its own: every listing of up to MaxLines   *)
(* lines over the shapes gpg prints (key lines with and without the        *)
(* suffix character and the expiry bracket, card-no: lines with and        *)
(* without fields, uid lines).                                             *)
(***************************************************************************)
OtherCardNo == <<"0006", "87654321">>

KeyListLines ==
    LineAlphabet \cup
    { Line("ssb", "", SubkeyID, <<"S">>, "", << >>),
      Line("ssb", ">", SubkeyID, <<"S">>, "2030-09-04", << >>),
      Line("card-no:", "", << >>, << >>, "", OtherCardNo),
      Line("card-no:", "", << >>, << >>, "", << >>) }

NoKeys == [done |-> FALSE, keys |-> << >>]

InitKeyList ==
    /\ klIn \in SeqsUpTo(KeyListLines, MaxLines)
    /\ klOut = NoKeys

KL_Parse ==
    /\ ~klOut.done
    /\ klOut' = [done |-> TRUE, keys |-> parseKeyList(klIn)]
    /\ UNCHANGED klIn
    /\ UNCHANGED notKeyList

NextKeyList == KL_Parse

(***************************************************************************)
(* Card status parser (gpg package, parseCardStatus).  A line of           *)
(* `gpg --card-status` is a sequence of atoms: words, single blanks " ",   *)
(* single dots "." and single colons ":".  The string functions of the     *)
(* code are computed on the atoms.                                         *)
(***************************************************************************)
MaxCardLines == 2

\* strings.TrimSpace
RECURSIVE TrimLeft(_)
TrimLeft(s) == IF s # << >> /\ Head(s) = " " THEN TrimLeft(Tail(s)) ELSE s

RECURSIVE TrimRight(_)
TrimRight(s) ==
    IF s # << >> /\ s[Len(s)] = " " THEN TrimRight(SubSeq(s, 1, Len(s) - 1)) ELSE s

TrimSpace(s) == TrimRight(TrimLeft(s))

\* strings.HasPrefix
HasPrefix(s, prefix) == Len(prefix) <= Len(s) /\ SubSeq(s, 1, Len(prefix)) = prefix

\* the position of the first atom `a` in s, 0 when there is none
FirstIndex(s, a) ==
    IF a \in Range(s) THEN CHOOSE i \in 1..Len(s) : s[i] = a /\ \A j \in 1..(i - 1) : s[j] # a
    ELSE 0

\* strings.SplitN(line, ":", 2)
SplitAtColon(line) ==
    LET i == FirstIndex(line, ":")
    IN IF i = 0 THEN <<line>>
       ELSE <<SubSeq(line, 1, i - 1), SubSeq(line, i + 1, Len(line))>>

\* strings.Fields: the maximal runs of atoms that are not blanks
RECURSIVE Fields(_)
Fields(s) ==
    LET t == TrimLeft(s)
        cut == FirstIndex(t, " ")
    IN IF t = << >> THEN << >>
       ELSE IF cut = 0 THEN <<t>>
       ELSE <<SubSeq(t, 1, cut - 1)>> \o Fields(SubSeq(t, cut + 1, Len(t)))

\* the words in which "key" occurs, and those that begin with it
WordsContainingKey == {"key"}

\* strings.Contains(line, "key")
ContainsKey(line) == \E i \in 1..Len(line) : line[i] \in WordsContainingKey

\* strings.Index(s, " key"): the position of the first blank followed by a
\* word that begins with "key", 0 when there is none (Go: -1)
IndexSpaceKey(s) ==
    LET hits == {i \in 1..(Len(s) - 1) : s[i] = " " /\ s[i + 1] \in WordsContainingKey}
    IN IF hits = {} THEN 0 ELSE CHOOSE i \in hits : \A j \in hits : i <= j

\* slotName that keeps everything left of the colon
slotName_noCut(keyTypePart) == TrimSpace(keyTypePart)

\* lines 112-119: keyTypePart is TrimSpace(parts[0]); the slot name is what
\* precedes the first " key" when that is not at the very start
slotName(keyTypePart) ==
    LET idx == IndexSpaceKey(keyTypePart)
    IN TrimSpace(IF idx > 1 THEN SubSeq(keyTypePart, 1, idx - 1) ELSE keyTypePart)

\* storesSlot without the tests of line 121
storesSlot_always(value) == TRUE

\* line 121, on the local keyID
storesSlot(value) == value # <<"[none]">> /\ value # << >>

\* gpg.CardInfo; Keys is the map, as the set of its [slot, value] entries
EmptyCardInfo == [Serial |-> << >>, Cardholder |-> << >>, Keys |-> {}]

\* info.Keys[keyType] = keyID
PutKey(ks, keyType, id) ==
    {e \in ks : e.slot # keyType} \cup {[slot |-> keyType, value |-> id]}

\* the body of the loop of parseCardStatus, lines 85-125
cardLine(info, rawLine) ==
    LET line == TrimSpace(rawLine)
        flds == Fields(line)
        parts == SplitAtColon(line)
        i1 == IF HasPrefix(line, <<"Serial", " ", "number">>) /\ Len(flds) >= 4
              THEN [info EXCEPT !.Serial = flds[4]] ELSE info
        i2 == IF HasPrefix(line, <<"Name", " ", "of", " ", "cardholder">>) /\ Len(parts) = 2
              THEN [i1 EXCEPT !.Cardholder = TrimSpace(parts[2])] ELSE i1
        i3 == IF ContainsKey(line) /\ ":" \in Range(line) /\ Len(parts) = 2
                 /\ storesSlot(TrimSpace(parts[2]))
              THEN [i2 EXCEPT !.Keys = PutKey(@, slotName(TrimSpace(parts[1])), TrimSpace(parts[2]))]
              ELSE i2
    IN IF line = << >> THEN info ELSE i3

RECURSIVE parseCardStatus(_)
parseCardStatus(output) ==
    IF output = << >> THEN EmptyCardInfo
    ELSE cardLine(parseCardStatus(SubSeq(output, 1, Len(output) - 1)), output[Len(output)])

\* the lines fed to the parser
SlotNames == {"Signature", "Encryption"}

Paddings == {<< >>, <<".", ".">>, <<" ", ".", ".">>}

SlotValues == {<<" ", "ABC123">>, <<" ", "DEF456">>, <<" ", "[none]">>, << >>}

SlotLine(name, pad, value) == <<name, " ", "key">> \o pad \o <<":">> \o value

OtherCardLines ==
    { <<"Serial", " ", "number", " ", ".", ".", ":", " ", "12345678">>,
      <<" ", " ", "Name", " ", "of", " ", "cardholder", ":", " ", "Test", " ", "User">>,
      <<"Version", " ", ".", ".", ":", " ", "5.4.3">>,
      <<"URL", " ", "of", " ", "public", " ", "key", " ", ":", " ", "[not set]">>,
      <<"General", " ", "key", " ", "info", ".", ".", ":", " ", "pub", " ", "ed25519/ABC123DEF4567890">> }

CardLines ==
    {SlotLine(n, p, v) : n \in SlotNames, p \in Paddings, v \in SlotValues} \cup OtherCardLines

NoCardInfo == [done |-> FALSE, info |-> EmptyCardInfo]

InitCardStatus ==
    /\ csIn \in SeqsUpTo(CardLines, MaxCardLines)
    /\ csOut = NoCardInfo

CS_Parse ==
    /\ ~csOut.done
    /\ csOut' = [done |-> TRUE, info |-> parseCardStatus(csIn)]
    /\ UNCHANGED csIn
    /\ UNCHANGED notCardStatus

NextCardStatus == CS_Parse

(***************************************************************************)
(* Key Directory Service driven on its own (internal/gpg/gpg.go): one      *)
(* operation per behaviour, run against the real executor.  ImportKey      *)
(* goes through a temporary file and takes three steps.                    *)
(***************************************************************************)
SvcOps ==
    {"ListSecretKeys", "CardStatus", "ExportPublicKey", "ExportSecretSubkeys",
     "DeleteSecretKey", "ImportKey", "ExportOwnerTrust", "CheckTrustDB", "EditKey"}

\* the operations that are one call of exec.Run
RunOps == SvcOps \ {"ImportKey", "EditKey"}

ExportOwnerTrust(r) ==
    IF r.err # NoError
    THEN [err |-> Wrap("failed to export ownertrust", r.err), out |-> << >>]
    ELSE [err |-> NoError, out |-> r.out]

CheckTrustDB(r) ==
    IF r.err # NoError THEN Wrap("failed to check trustdb", r.err) ELSE NoError

\* EditKey returns what RunInteractive returned
EditKey(r) == r.err

\* what gpg prints on stdout, by operation
FixtureListing ==
    << Line("sec", "", PrimaryKeyID, <<"S", "C">>, "2030-09-04", << >>),
       Line("ssb", "", SubkeyID, <<"E">>, "2030-09-04", << >>) >>

StdoutOf(op) ==
    CASE op = "ListSecretKeys" ->
            {<< >>, FixtureListing, <<Line("uid", "", << >>, << >>, "", << >>)>>}
      [] op = "CardStatus" -> {<< >>, <<SlotLine("Signature", <<".", ".">>, <<" ", "ABC123">>)>>}
      [] OTHER -> Blobs

SvcOutcomes(op) ==
    { [proc |-> p, createTemp |-> c, write |-> w] :
        p \in {LaunchFails} \cup
              {Exit(code, out, e) : code \in 0..MaxExit, out \in StdoutOf(op), e \in StderrTexts},
        c \in IF op = "ImportKey" THEN BOOLEAN ELSE {TRUE},
        w \in IF op = "ImportKey" THEN BOOLEAN ELSE {TRUE} }

NoOutcome == [proc |-> LaunchFails, createTemp |-> TRUE, write |-> TRUE]

NoSvcResult ==
    [done |-> FALSE, err |-> NoError, execErr |-> NoError, out |-> << >>,
     keys |-> << >>, info |-> EmptyCardInfo]

\* the temporary directory: names os.CreateTemp("", "gpg-import-*.gpg") can
\* pick, and a file of somebody else
TmpNames == {"gpg-import-1.gpg", "gpg-import-2.gpg"}

ForeignTmp == {"gpg-import-1.gpg", "other.tmp"}

\* os.CreateTemp: a name that does not exist yet
createTemp(files) == CHOOSE n \in TmpNames : n \notin files

\* ImportKey without its deferred removal
deferredRemove_missing(files, name) == files

\* defer os.Remove(tmpFile.Name())
deferredRemove(files, name) == files \ {name}

InitService ==
    /\ svOp \in SvcOps
    /\ svOutcome \in SvcOutcomes(svOp)
    /\ svPc = "call"
    /\ svTmp \in SUBSET ForeignTmp
    /\ svName = ""
    /\ svResult = NoSvcResult

\* the seven operations that run gpg once and classify its failure
Svc_Run ==
    /\ svPc = "call"
    /\ svOp \in RunOps
    /\ LET r == Run(svOutcome.proc)
           res == [NoSvcResult EXCEPT !.done = TRUE, !.execErr = r.err]
       IN svResult' =
            CASE svOp = "ListSecretKeys" ->
                    [res EXCEPT !.err = ListSecretKeys(r).err, !.keys = ListSecretKeys(r).keys]
              [] svOp = "CardStatus" ->
                    [res EXCEPT !.err = CardStatus(r),
                                !.info = IF r.err # NoError THEN EmptyCardInfo
                                         ELSE parseCardStatus(r.out)]
              [] svOp = "ExportPublicKey" ->
                    [res EXCEPT !.err = ExportPublicKey(r).err, !.out = ExportPublicKey(r).out]
              [] svOp = "ExportSecretSubkeys" ->
                    [res EXCEPT !.err = ExportSecretSubkeys(r).err,
                                !.out = ExportSecretSubkeys(r).out]
              [] svOp = "DeleteSecretKey" -> [res EXCEPT !.err = DeleteSecretKey(r)]
              [] svOp = "ExportOwnerTrust" ->
                    [res EXCEPT !.err = ExportOwnerTrust(r).err, !.out = ExportOwnerTrust(r).out]
              [] OTHER -> [res EXCEPT !.err = CheckTrustDB(r)]
    /\ svPc' = "returned"
    /\ UNCHANGED <<svOp, svOutcome, svTmp, svName>>
    /\ UNCHANGED notService

\* EditKey, lines 171-174
Svc_EditKey ==
    /\ svPc = "call"
    /\ svOp = "EditKey"
    /\ LET r == RunInteractive("gpg", svOutcome.proc, "neither")
       IN svResult' = [NoSvcResult EXCEPT !.done = TRUE, !.execErr = r.err, !.err = EditKey(r)]
    /\ svPc' = "returned"
    /\ UNCHANGED <<svOp, svOutcome, svTmp, svName>>
    /\ UNCHANGED notService

\* ImportKey, lines 126-130
Imp_CreateTemp ==
    /\ svPc = "call"
    /\ svOp = "ImportKey"
    /\ IF svOutcome.createTemp
       THEN /\ svName' = createTemp(svTmp)
            /\ svTmp' = svTmp \cup {createTemp(svTmp)}
            /\ svPc' = "write"
            /\ UNCHANGED svResult
       ELSE /\ svResult' = [NoSvcResult EXCEPT !.done = TRUE,
                                              !.err = ImportKey("createTempFails")]
            /\ svPc' = "returned"
            /\ UNCHANGED <<svTmp, svName>>
    /\ UNCHANGED <<svOp, svOutcome>>
    /\ UNCHANGED notService

\* ImportKey, lines 132-136
Imp_Write ==
    /\ svPc = "write"
    /\ IF svOutcome.write
       THEN /\ svPc' = "import"
            /\ UNCHANGED <<svTmp, svResult>>
       ELSE /\ svResult' = [NoSvcResult EXCEPT !.done = TRUE, !.err = ImportKey("writeFails")]
            /\ svTmp' = deferredRemove(svTmp, svName)
            /\ svPc' = "returned"
    /\ UNCHANGED <<svOp, svOutcome, svName>>
    /\ UNCHANGED notService

\* ImportKey, lines 139-145
Imp_Run ==
    /\ svPc = "import"
    /\ LET r == Run(svOutcome.proc)
       IN svResult' = [NoSvcResult EXCEPT
                          !.done = TRUE, !.execErr = r.err,
                          !.err = IF r.err # NoError THEN Wrap("failed to import key", r.err)
                                  ELSE NoError]
    /\ svTmp' = deferredRemove(svTmp, svName)
    /\ svPc' = "returned"
    /\ UNCHANGED <<svOp, svOutcome, svName>>
    /\ UNCHANGED notService

NextService ==
    \/ Svc_Run
    \/ Svc_EditKey
    \/ Imp_CreateTemp
    \/ Imp_Write
    \/ Imp_Run

(***************************************************************************)
(* Backup Service (internal/backup/backup.go).  The clock counts seconds,  *)
(* the directory name is the clock reading formatted to the second.  A     *)
(* file is the sequence of the contents written to it (os.WriteFile        *)
(* truncates: the last one is what the file holds); what the exports hold  *)
(* is the state of the key store, which changes between invocations.       *)
(***************************************************************************)
MaxClock == 2
MaxEdits == 1
MaxBackups == 2

Stamps == 0..MaxClock

NoDir == [exists |-> FALSE, publicKey |-> << >>, trustdb |-> << >>, keyList |-> << >>]

NoDirs == [t \in Stamps |-> NoDir]

NoBackupResult == [path |-> 0 - 1, err |-> NoError]

\* time.Now().Format("20060102-150405"): the reading to the second
timestamp(now) == now

\* os.WriteFile(path, data, 0644)
WriteFile(file, data) == Append(file, data)

InitBackup ==
    /\ clock = 0
    /\ keyring = 0
    /\ bpc = "ready"
    /\ bcount = 0
    /\ bstamp = 0
    /\ bdirs = NoDirs
    /\ breturned = {}
    /\ bresult = NoBackupResult

\* a second passes
Tick ==
    /\ clock < MaxClock
    /\ clock' = clock + 1
    /\ UNCHANGED <<keyring, bpc, bcount, bstamp, bdirs, breturned, bresult>>
    /\ UNCHANGED notBackup

\* the key store changes between two backups (an edit session, an import)
KeyringChanges ==
    /\ bpc = "ready"
    /\ keyring < MaxEdits
    /\ keyring' = keyring + 1
    /\ UNCHANGED <<clock, bpc, bcount, bstamp, bdirs, breturned, bresult>>
    /\ UNCHANGED notBackup

\* bkFails handing back the path of the directory it was writing
bkFails_returnsPath(msg) ==
    /\ bresult' = [path |-> bstamp, err |-> <<msg, "os error">>]
    /\ bpc' = "ready"

\* CreateBackup returning an error
bkFails(msg) ==
    /\ bresult' = [path |-> 0 - 1, err |-> <<msg, "os error">>]
    /\ bpc' = "ready"

\* lines 39-45
Bk_Mkdir ==
    /\ bpc = "ready"
    /\ bcount < MaxBackups
    /\ bcount' = bcount + 1
    /\ bstamp' = timestamp(clock)
    /\ \/ /\ bdirs' = [bdirs EXCEPT ![timestamp(clock)].exists = TRUE]
          /\ bpc' = "public"
          /\ bresult' = NoBackupResult
       \/ /\ bkFails("failed to create backup directory")
          /\ UNCHANGED bdirs
    /\ UNCHANGED <<clock, keyring, breturned>>
    /\ UNCHANGED notBackup

\* lines 48-56
Bk_PublicKey ==
    /\ bpc = "public"
    /\ \/ /\ bdirs' = [bdirs EXCEPT ![bstamp].publicKey = WriteFile(@, keyring)]
          /\ bpc' = "trust"
          /\ UNCHANGED bresult
       \/ /\ \E msg \in {"failed to export public key", "failed to write public key backup"} :
                bkFails(msg)
          /\ UNCHANGED bdirs
    /\ UNCHANGED <<clock, keyring, bcount, bstamp, breturned>>
    /\ UNCHANGED notBackup

\* lines 59-67
Bk_TrustDB ==
    /\ bpc = "trust"
    /\ \/ /\ bdirs' = [bdirs EXCEPT ![bstamp].trustdb = WriteFile(@, keyring)]
          /\ bpc' = "list"
          /\ UNCHANGED bresult
       \/ /\ \E msg \in {"failed to export ownertrust", "failed to write trustdb backup"} :
                bkFails(msg)
          /\ UNCHANGED bdirs
    /\ UNCHANGED <<clock, keyring, bcount, bstamp, breturned>>
    /\ UNCHANGED notBackup

\* lines 70-81
Bk_KeyList ==
    /\ bpc = "list"
    /\ \/ /\ bdirs' = [bdirs EXCEPT ![bstamp].keyList = WriteFile(@, keyring)]
          /\ bresult' = [path |-> bstamp, err |-> NoError]
          /\ breturned' = breturned \cup
                {[path |-> bstamp, dir |-> [bdirs[bstamp] EXCEPT !.keyList = WriteFile(@, keyring)]]}
          /\ bpc' = "ready"
       \/ /\ \E msg \in {"failed to list secret keys", "failed to write key list backup"} :
                bkFails(msg)
          /\ UNCHANGED <<bdirs, breturned>>
    /\ UNCHANGED <<clock, keyring, bcount, bstamp>>
    /\ UNCHANGED notBackup

NextBackup ==
    \/ Tick
    \/ KeyringChanges
    \/ Bk_Mkdir
    \/ Bk_PublicKey
    \/ Bk_TrustDB
    \/ Bk_KeyList

(***************************************************************************)
(* The workflows that change keys (internal/cli), reduced to their control *)
(* flow: a workflow is a table of steps.  A "check" step passes or makes   *)
(* the workflow return, a "confirm" step is the operator's answer, an "op" *)
(* step is a call of the Backup Service, of the Key Directory Service's    *)
(* edit session, of a secret key deletion, of the import of the master    *)
(* key file or of removeMasterKey, which succeeds or fails.               *)
(***************************************************************************)
MaxOps == 5

Step(kind, op, ok, ko) == [kind |-> kind, op |-> op, ok |-> ok, ko |-> ko]

runSetup ==
    [ presence |-> Step("check", "", "cardInfo", "end"),
      cardInfo |-> Step("check", "", "confirmExisting", "end"),
      confirmExisting |-> Step("confirm", "", "backup", "end"),
      backup |-> Step("op", "CreateBackup", "masterPath", "end"),
      masterPath |-> Step("check", "", "importMaster", "end"),
      importMaster |-> Step("op", "ImportMasterKey", "listKeys", "end"),
      listKeys |-> Step("check", "", "promptGenerate", "end"),
      promptGenerate |-> Step("confirm", "", "editGenerate", "quitRemove"),
      quitRemove |-> Step("op", "removeMasterKey", "end", "end"),
      editGenerate |-> Step("op", "EditKey", "promptMove", "end"),
      promptMove |-> Step("check", "", "editMove", "end"),
      editMove |-> Step("op", "EditKey", "confirmRemove", "end"),
      confirmRemove |-> Step("confirm", "", "remove", "upload"),
      remove |-> Step("op", "removeMasterKey", "upload", "upload"),
      upload |-> Step("confirm", "", "end", "end") ]

runExtend ==
    [ listKeys |-> Step("check", "", "promptExpiry", "end"),
      promptExpiry |-> Step("check", "", "backup", "end"),
      backup |-> Step("op", "CreateBackup", "masterPath", "end"),
      masterPath |-> Step("check", "", "importMaster", "end"),
      importMaster |-> Step("op", "ImportMasterKey", "promptContinue", "end"),
      promptContinue |-> Step("check", "", "edit", "end"),
      edit |-> Step("op", "EditKey", "remove", "end"),
      remove |-> Step("op", "removeMasterKey", "upload", "upload"),
      upload |-> Step("confirm", "", "end", "end") ]

runRevoke ==
    [ listKeys |-> Step("check", "", "promptKey", "end"),
      promptKey |-> Step("confirm", "", "found", "end"),
      found |-> Step("check", "", "confirmSure", "end"),
      confirmSure |-> Step("confirm", "", "backup", "end"),
      backup |-> Step("op", "CreateBackup", "masterPath", "end"),
      masterPath |-> Step("check", "", "importMaster", "end"),
      importMaster |-> Step("op", "ImportMasterKey", "promptContinue", "end"),
      promptContinue |-> Step("check", "", "edit", "end"),
      edit |-> Step("op", "EditKey", "remove", "end"),
      remove |-> Step("op", "removeMasterKey", "upload", "upload"),
      upload |-> Step("confirm", "", "end", "end") ]

runMoveSubkey ==
    [ presence |-> Step("check", "", "cardInfo", "end"),
      cardInfo |-> Step("check", "", "confirmAttributes", "end"),
      confirmAttributes |-> Step("confirm", "", "confirmExisting", "end"),
      confirmExisting |-> Step("confirm", "", "listKeys", "end"),
      listKeys |-> Step("check", "", "confirmNoMaster", "end"),
      confirmNoMaster |-> Step("confirm", "", "confirmReady", "end"),
      confirmReady |-> Step("confirm", "", "promptContinue", "end"),
      promptContinue |-> Step("check", "", "edit", "end"),
      edit |-> Step("op", "EditKey", "verify", "end"),
      verify |-> Step("check", "", "confirmRemove", "confirmRemove"),
      confirmRemove |-> Step("confirm", "", "remove", "upload"),
      remove |-> Step("op", "removeMasterKey", "upload", "upload"),
      upload |-> Step("confirm", "", "end", "end") ]

runCleanup ==
    [ listAll |-> Step("check", "", "listPrimary", "end"),
      listPrimary |-> Step("check", "", "confirmInteractive", "confirmInteractive"),
      confirmInteractive |-> Step("confirm", "", "promptKey", "confirmTrust"),
      promptKey |-> Step("confirm", "", "confirmDelete", "confirmTrust"),
      confirmDelete |-> Step("confirm", "", "deleteSecret", "promptKey"),
      deleteSecret |-> Step("op", "DeleteSecretKeys", "deletePublic", "deletePublic"),
      deletePublic |-> Step("op", "DeleteKeys", "promptKey", "promptKey"),
      confirmTrust |-> Step("confirm", "", "checkTrust", "end"),
      checkTrust |-> Step("op", "CheckTrustDB", "end", "end") ]

FlowNames == {"setup", "extend", "revoke", "moveSubkey", "cleanup"}

Program(w) ==
    CASE w = "setup" -> runSetup
      [] w = "extend" -> runExtend
      [] w = "revoke" -> runRevoke
      [] w = "moveSubkey" -> runMoveSubkey
      [] OTHER -> runCleanup

Entry(w) ==
    CASE w = "setup" -> "presence"
      [] w = "extend" -> "listKeys"
      [] w = "revoke" -> "listKeys"
      [] w = "moveSubkey" -> "presence"
      [] OTHER -> "listAll"

Running == fpc \notin {"idle", "end"}

InitFlow ==
    /\ fw \in FlowNames
    /\ fpc = Entry(fw)
    /\ ftrace = << >>

\* a query, a prompt or a file check: it passes or the workflow acts on
\* its failure
Flow_Check ==
    /\ Running
    /\ Program(fw)[fpc].kind = "check"
    /\ \E passes \in BOOLEAN :
          fpc' = IF passes THEN Program(fw)[fpc].ok ELSE Program(fw)[fpc].ko
    /\ UNCHANGED <<fw, ftrace>>
    /\ UNCHANGED notFlow

\* ui.Confirm / ui.Prompt: the operator's answer
Flow_Confirm ==
    /\ Running
    /\ Program(fw)[fpc].kind = "confirm"
    /\ \E yes \in BOOLEAN :
          fpc' = IF yes THEN Program(fw)[fpc].ok ELSE Program(fw)[fpc].ko
    /\ UNCHANGED <<fw, ftrace>>
    /\ UNCHANGED notFlow

\* a call that writes a backup or changes the key store
Flow_Op ==
    /\ Running
    /\ Program(fw)[fpc].kind = "op"
    /\ Len(ftrace) < MaxOps
    /\ \E succeeds \in BOOLEAN :
          /\ ftrace' = Append(ftrace, [op |-> Program(fw)[fpc].op, ok |-> succeeds])
          /\ fpc' = IF succeeds THEN Program(fw)[fpc].ok ELSE Program(fw)[fpc].ko
    /\ UNCHANGED fw
    /\ UNCHANGED notFlow

NextFlow ==
    \/ Flow_Check
    \/ Flow_Confirm
    \/ Flow_Op

(***************************************************************************)
(* runVerify (internal/cli/setup_batch.go): the search for the signing     *)
(* subkey that lives on the token, lines 330-375.  Its inputs are the keys *)
(* ListSecretKeys returned and the answer of GetCardInfo.                  *)
(***************************************************************************)
MaxSelLines == 4

SecondSubkeyID == <<"F","E","D","C","B","A","0","9","8","7","6","5","4","3","2","1">>

CardSerial == "12345678"

SelLines ==
    { Line("ssb", "", SubkeyID, <<"S">>, "2030-09-04", << >>),
      Line("ssb", "", SecondSubkeyID, <<"S">>, "2031-01-15", << >>),
      Line("ssb", "", PrimaryKeyID, <<"E">>, "2030-09-04", << >>),
      Line("card-no:", "", << >>, << >>, "", <<"0006", CardSerial>>),
      Line("card-no:", "", << >>, << >>, "", <<"0006", "87654321">>) }

\* what GetCardInfo can answer: no card information, or the parsed status
\* of a token with or without a signature key
SelCardAnswers ==
    {[ok |-> FALSE, info |-> EmptyCardInfo]} \cup
    {[ok |-> TRUE,
      info |-> parseCardStatus(<<<<"Serial", " ", "number", " ", ".", ".", ":", " ", CardSerial>>>> \o sig)] :
        sig \in {<< >>} \cup {<<SlotLine("Signature", <<".", ".">>, v)>> : v \in SlotValues}}

\* helpers.go: contains
contains(slice, value) == \E i \in 1..Len(slice) : slice[i] = value

\* cardInfo.Keys["Signature"]: the value and whether the entry exists
sigKeyOf(info) ==
    IF \E e \in info.Keys : e.slot = <<"Signature">>
    THEN [ok |-> TRUE, value |-> (CHOOSE e \in info.Keys : e.slot = <<"Signature">>).value]
    ELSE [ok |-> FALSE, value |-> << >>]

\* fmt.Sprintf("0006 %s", serial) and fmt.Sprintf("0006%s", serial), as the
\* fields Key.CardNo is made of; the serial is one field of the card status
\* (an empty serial leaves "0006 ", which no joined field list equals)
cardSerialFormatted(serial) ==
    IF serial = << >> THEN <<"0006", "">> ELSE <<"0006">> \o serial
cardSerialFormattedAlt(serial) ==
    IF serial = << >> THEN <<"0006">> ELSE <<"0006" \o Head(serial)>> \o Tail(serial)

isSigningSubkey(key) == key.Type = "ssb" /\ contains(key.Capabilities, "S")

First(S) == CHOOSE i \in S : \A j \in S : i <= j

\* lines 343-354: the first signing subkey whose card-no is this token's
byCardNo(ks, serial) ==
    LET hits == {i \in 1..Len(ks) :
                    /\ isSigningSubkey(ks[i])
                    /\ ks[i].CardNo \in {cardSerialFormatted(serial), cardSerialFormattedAlt(serial)}}
    IN IF hits = {} THEN << >> ELSE ks[First(hits)].KeyID

\* lines 358-375: latestSigningKey is assigned only while it is nil
latestSigningKey(ks) ==
    LET onCard == {i \in 1..Len(ks) : isSigningSubkey(ks[i]) /\ ks[i].CardNo # << >>}
    IN IF onCard = {} THEN << >> ELSE ks[First(onCard)].KeyID

signingSubkeyID(ks, answer) ==
    LET sigKey == sigKeyOf(answer.info)
    IN IF ~answer.ok THEN << >>
       ELSE IF sigKey.ok /\ sigKey.value # << >> /\ sigKey.value # <<"[none]">>
       THEN sigKey.value
       ELSE IF byCardNo(ks, answer.info.Serial) # << >>
       THEN byCardNo(ks, answer.info.Serial)
       ELSE latestSigningKey(ks)

NoSelection == [done |-> FALSE, id |-> << >>]

InitSelect ==
    /\ selKeys \in {parseKeyList(l) : l \in SeqsUpTo(SelLines, MaxSelLines)}
    /\ selInfo \in SelCardAnswers
    /\ selOut = NoSelection

Sel_Find ==
    /\ ~selOut.done
    /\ selOut' = [done |-> TRUE, id |-> signingSubkeyID(selKeys, selInfo)]
    /\ UNCHANGED <<selKeys, selInfo>>
    /\ UNCHANGED notSelect

NextSelect == Sel_Find

(***************************************************************************)
(* runCleanup (internal/cli): the interactive delete loop, lines 62-93,    *)
(* and the trust database question after it.  The operator types           *)
(* identifiers; each gpg command issued is recorded with its argument.     *)
(***************************************************************************)
MaxDeletes == 2

PrimaryKeyIDLower == <<"a","b","c","1","2","3","d","e","f","4","5","6","7","8","9","0">>

\* what the operator can type at "Enter KEY ID to delete (or 'q' to quit)"
TypedIDs == {PrimaryKeyID, PrimaryFingerprint, PrimaryKeyIDLower, SubkeyID}

Quit == <<"q">>

\* ui.Prompt: the trimmed line, or the error of a closed input
PromptAnswers ==
    {[err |-> NoError, out |-> t] : t \in TypedIDs \cup {Quit}}
        \cup {[err |-> <<"failed to read input", "EOF">>, out |-> << >>]}

GpgCommand(c, a, e) == [cmd |-> c, arg |-> a, err |-> e]

InitCleanup ==
    /\ clPc = "confirmInteractive"
    /\ clTyped = << >>
    /\ clCmds = << >>

\* line 62: ui.Confirm("Would you like to interactively delete keys?")
Cl_ConfirmInteractive ==
    /\ clPc = "confirmInteractive"
    /\ \E yes \in BOOLEAN : clPc' = IF yes THEN "prompt" ELSE "confirmTrust"
    /\ UNCHANGED <<clTyped, clCmds>>
    /\ UNCHANGED notCleanup

\* lines 64-75: the prompt, 'q', and the guard on the primary key
Cl_Prompt ==
    /\ clPc = "prompt"
    /\ \E answer \in PromptAnswers :
          /\ clTyped' = answer.out
          /\ clPc' = IF answer.err # NoError THEN "done"
                     ELSE IF answer.out = Quit THEN "confirmTrust"
                     ELSE IF answer.out = PrimaryKeyID THEN "prompt"
                     ELSE "confirmDelete"
    /\ UNCHANGED clCmds
    /\ UNCHANGED notCleanup

\* line 77: ui.Confirm("Delete %s?")
Cl_ConfirmDelete ==
    /\ clPc = "confirmDelete"
    /\ \E yes \in BOOLEAN :
          /\ yes => Len(clCmds) < 2 * MaxDeletes
          /\ clPc' = IF yes THEN "deleteSecret" ELSE "prompt"
    /\ UNCHANGED <<clTyped, clCmds>>
    /\ UNCHANGED notCleanup

\* lines 79-82: a failure is a warning
Cl_DeleteSecret ==
    /\ clPc = "deleteSecret"
    /\ \E e \in {NoError, ExecFailure} :
          clCmds' = Append(clCmds, GpgCommand("--delete-secret-keys", clTyped, e))
    /\ clPc' = "deletePublic"
    /\ UNCHANGED clTyped
    /\ UNCHANGED notCleanup

\* lines 85-90
Cl_DeletePublic ==
    /\ clPc = "deletePublic"
    /\ \E e \in {NoError, ExecFailure} :
          clCmds' = Append(clCmds, GpgCommand("--delete-keys", clTyped, e))
    /\ clPc' = "prompt"
    /\ UNCHANGED clTyped
    /\ UNCHANGED notCleanup

\* lines 96-102: ui.Confirm("Clean up trust database?") and CheckTrustDB
Cl_TrustDB ==
    /\ clPc = "confirmTrust"
    /\ \E yes \in BOOLEAN, e \in {NoError, ExecFailure} :
          clCmds' = IF yes THEN Append(clCmds, GpgCommand("--check-trustdb", << >>, e))
                    ELSE clCmds
    /\ clPc' = "done"
    /\ UNCHANGED clTyped
    /\ UNCHANGED notCleanup

NextCleanup ==
    \/ Cl_ConfirmInteractive
    \/ Cl_Prompt
    \/ Cl_ConfirmDelete
    \/ Cl_DeleteSecret
    \/ Cl_DeletePublic
    \/ Cl_TrustDB

(***************************************************************************)
(* Specifications.  Each component runs on its own; the variables of the   *)
(* other components rest at their idle values.                             *)
(***************************************************************************)
IdleRMK ==
    /\ masterPresent = FALSE
    /\ pc = "idle"
    /\ fingerprint = << >>
    /\ listing = << >>
    /\ keyID = << >>
    /\ keys = << >>
    /\ subkeys = << >>
    /\ publicKey = << >>
    /\ calls = << >>
    /\ result = NoError
    /\ logged = << >>

IdleCaps == capsIn = << >> /\ capsOut = [done |-> TRUE, caps |-> << >>]

IdleExec ==
    /\ exName = ""
    /\ exOutcome = LaunchFails
    /\ exTTY = "neither"
    /\ exResult = [NoExecResult EXCEPT !.done = TRUE]

IdlePresence ==
    /\ wf = ""
    /\ ppc = "idle"
    /\ ctx = Background
    /\ pcalls = << >>
    /\ statusErr = NoError
    /\ sup = NoSup
    /\ isp = NoIsp
    /\ report = << >>

IdleKeyList == klIn = << >> /\ klOut = [done |-> TRUE, keys |-> << >>]

IdleCardStatus == csIn = << >> /\ csOut = [done |-> TRUE, info |-> EmptyCardInfo]

IdleService ==
    /\ svOp = ""
    /\ svOutcome = NoOutcome
    /\ svPc = "idle"
    /\ svTmp = {}
    /\ svName = ""
    /\ svResult = [NoSvcResult EXCEPT !.done = TRUE]

IdleBackup ==
    /\ clock = 0
    /\ keyring = 0
    /\ bpc = "idle"
    /\ bcount = 0
    /\ bstamp = 0
    /\ bdirs = NoDirs
    /\ breturned = {}
    /\ bresult = NoBackupResult

IdleFlow == fw = "" /\ fpc = "idle" /\ ftrace = << >>

IdleSelect ==
    /\ selKeys = << >>
    /\ selInfo = [ok |-> FALSE, info |-> EmptyCardInfo]
    /\ selOut = [NoSelection EXCEPT !.done = TRUE]

IdleCleanup == clPc = "idle" /\ clTyped = << >> /\ clCmds = << >>

\* the components added after the first four, at rest
IdleRest ==
    /\ IdleKeyList /\ IdleCardStatus /\ IdleService /\ IdleBackup /\ IdleFlow
    /\ IdleSelect /\ IdleCleanup

\* the components before the last two, at rest
IdleEarly ==
    /\ IdleKeyList /\ IdleCardStatus /\ IdleService /\ IdleBackup /\ IdleFlow

\* the first four components at rest
IdleCore == IdleRMK /\ IdleCaps /\ IdleExec /\ IdlePresence

Init == InitRMK /\ IdleCaps /\ IdleExec /\ IdlePresence /\ IdleRest
Next == NextRMK
Spec == Init /\ [][Next]_vars

InitParse == IdleRMK /\ InitCaps /\ IdleExec /\ IdlePresence /\ IdleRest
NextParse == NextCaps
SpecParse == InitParse /\ [][NextParse]_vars

InitExecutor == IdleRMK /\ IdleCaps /\ InitExec /\ IdlePresence /\ IdleRest
NextExecutor == NextExec
SpecExec == InitExecutor /\ [][NextExecutor]_vars

InitPres == IdleRMK /\ IdleCaps /\ IdleExec /\ InitPresence /\ IdleRest
NextPres == NextPresence
SpecPresence == InitPres /\ [][NextPres]_vars

InitKL ==
    /\ IdleCore /\ InitKeyList /\ IdleCardStatus /\ IdleService /\ IdleBackup /\ IdleFlow
    /\ IdleSelect /\ IdleCleanup
NextKL == NextKeyList
SpecKeyList == InitKL /\ [][NextKL]_vars

InitCS ==
    /\ IdleCore /\ IdleKeyList /\ InitCardStatus /\ IdleService /\ IdleBackup /\ IdleFlow
    /\ IdleSelect /\ IdleCleanup
NextCS == NextCardStatus
SpecCardStatus == InitCS /\ [][NextCS]_vars

InitSvc ==
    /\ IdleCore /\ IdleKeyList /\ IdleCardStatus /\ InitService /\ IdleBackup /\ IdleFlow
    /\ IdleSelect /\ IdleCleanup
NextSvc == NextService
SpecService == InitSvc /\ [][NextSvc]_vars

InitBk ==
    /\ IdleCore /\ IdleKeyList /\ IdleCardStatus /\ IdleService /\ InitBackup /\ IdleFlow
    /\ IdleSelect /\ IdleCleanup
NextBk == NextBackup
SpecBackup == InitBk /\ [][NextBk]_vars

InitFl ==
    /\ IdleCore /\ IdleKeyList /\ IdleCardStatus /\ IdleService /\ IdleBackup /\ InitFlow
    /\ IdleSelect /\ IdleCleanup
NextFl == NextFlow
SpecFlow == InitFl /\ [][NextFl]_vars

InitSel == IdleCore /\ IdleEarly /\ InitSelect /\ IdleCleanup
NextSel == NextSelect
SpecSelect == InitSel /\ [][NextSel]_vars

InitCl == IdleCore /\ IdleEarly /\ IdleSelect /\ InitCleanup
NextCl == NextCleanup
SpecCleanup == InitCl /\ [][NextCl]_vars

(***************************************************************************)
(* Properties of removeMasterKey (checked under Spec).                     *)
(***************************************************************************)
Returned == pc \in {"returned", "done"}

Ops == [i \in 1..Len(calls) |-> calls[i].op]

Failed(op) == \E i \in 1..Len(calls) : calls[i].op = op /\ calls[i].err # NoError

Invoked(op) == \E i \in 1..Len(calls) : calls[i].op = op

\* the listing shows the primary key with the offline marker, sec#
ShowsOffline ==
    /\ \E i \in 1..Len(listing) : listing[i].head = "sec" /\ listing[i].suffix = "#"
    /\ \A i \in 1..Len(listing) : listing[i].head = "sec" => listing[i].suffix = "#"

IsSuffix(t, s) == Len(t) <= Len(s) /\ SubSeq(s, Len(s) - Len(t) + 1, Len(s)) = t

IsPrefix(t, s) == Len(t) <= Len(s) /\ SubSeq(s, 1, Len(t)) = t

\* C1: when the listing shows the primary key as offline (sec#),
\* removeMasterKey returns nil and the list query is its only call: no
\* export, no delete, no import.
C1_OfflineIsNoOp ==
    (Returned /\ ~Failed("ListSecretKeys") /\ ShowsOffline)
        => /\ result = NoError
           /\ Ops = <<"ListSecretKeys">>

C1_Witness ==
    /\ pc = "done"
    /\ ~Failed("ListSecretKeys")
    /\ ShowsOffline
    /\ Len(listing) >= 2

\* C2: when the public key export fails, removeMasterKey returns the error
\* "failed to export public key" and neither DeleteSecretKey nor ImportKey
\* is invoked.
C2_ExportFailureAborts ==
    Failed("ExportPublicKey")
        => /\ Returned
           /\ result # NoError
           /\ Head(result) = "failed to export public key"
           /\ ~Invoked("DeleteSecretKey")
           /\ ~Invoked("ImportKey")

C2_Witness == pc = "done" /\ Failed("ExportPublicKey")

FullOrder ==
    <<"ListSecretKeys", "ExportSecretSubkeys", "ExportPublicKey", "DeleteSecretKey",
      "ImportKey", "ImportKey">>

\* C3: the calls are issued in the order list, export secret subkeys, export
\* public key, delete secret key, import public key, import subkeys;
\* DeleteSecretKey is invoked at most once, and only after ExportPublicKey
\* has succeeded.
C3_FixedOrder ==
    /\ IsPrefix(Ops, FullOrder)
    /\ Cardinality({i \in 1..Len(calls) : calls[i].op = "DeleteSecretKey"}) <= 1
    /\ \A i \in 1..Len(calls) :
          calls[i].op = "DeleteSecretKey"
              => \E j \in 1..(i - 1) :
                    calls[j].op = "ExportPublicKey" /\ calls[j].err = NoError

C3_Witness ==
    /\ pc = "done"
    /\ Ops = FullOrder
    /\ result = NoError

\* C4: when the delete fails, removeMasterKey returns the error "failed to
\* delete secret key" and attempts no import.
C4_DeleteFailureAborts ==
    Failed("DeleteSecretKey")
        => /\ Returned
           /\ result # NoError
           /\ Head(result) = "failed to delete secret key"
           /\ ~Invoked("ImportKey")

C4_Witness == pc = "done" /\ Failed("DeleteSecretKey")

\* C5: no failure of the export/delete/import sequence is swallowed: once
\* the caller has handled the return, the error of every failed subkey
\* export, public export, delete and import is part of the returned error
\* or of what the operator was shown.
C5_NoSilentFailure ==
    pc = "done"
        => \A i \in 1..Len(calls) :
              (calls[i].op # "ListSecretKeys" /\ calls[i].err # NoError)
                  => IsSuffix(calls[i].err, result) \/ IsSuffix(calls[i].err, logged)

(***************************************************************************)
(* Properties of the token presence service (checked under SpecPresence).  *)
(***************************************************************************)
IsPresentReturned == ppc \in {"workflow", "done"}

\* the error text names one of the two "present but blocked" conditions
BlockedText(e) ==
    \E i \in 1..Len(e) : e[i] \in {"Operation not supported by device", "OpenPGP card not available"}

\* C6: IsPresent has three outcomes: (true, nil) when the card status query
\* succeeds, (false, nil) when it fails with a generic error, and
\* (false, error) when it fails with "Operation not supported by device" or
\* "OpenPGP card not available".
C6_ThreeOutcomes ==
    IsPresentReturned
        => LET q == pcalls[1]
           IN /\ q.err = NoError => (isp.present /\ isp.err = NoError)
              /\ (q.err # NoError /\ ~BlockedText(q.err))
                    => (~isp.present /\ isp.err = NoError)
              /\ (q.err # NoError /\ BlockedText(q.err))
                    => (~isp.present /\ isp.err # NoError)

C6_Witness ==
    /\ ppc = "done"
    /\ pcalls[1].err # NoError
    /\ "OpenPGP card not available" \in Range(pcalls[1].err)
    /\ ~isp.present
    /\ isp.err # NoError

\* no OpenPGP line of the ykman output carries one of the four markers
YkmanSilent(q) ==
    q.err # NoError
        \/ \A i \in 1..Len(q.out) :
              q.out[i].head = "OpenPGP"
                  => q.out[i].markers \cap {"Not available", "Disabled", "Enabled", "Available"} = {}

\* ykman told nothing and the direct status query failed again with the
\* ambiguous "Operation not supported by device"
NoSignalDecides ==
    /\ Len(pcalls) >= 3
    /\ pcalls[2].cmd = "ykman info"
    /\ YkmanSilent(pcalls[2])
    /\ pcalls[3].err # NoError
    /\ "Operation not supported by device" \in Range(pcalls[3].err)

\* C7: when no signal tells whether the token supports OpenPGP, the
\* detection returns the explicit "unable to determine" error instead of a
\* guess, and IsPresent asserts neither "not initialized" nor "not
\* supported" on that inconclusive probe.
C7_NoGuessWhenInconclusive ==
    (IsPresentReturned /\ NoSignalDecides)
        => /\ sup.called
           /\ ~sup.supports
           /\ Head(sup.err) = "unable to determine if YubiKey supports OpenPGP"
           /\ ~Contains(isp.err, "not initialized for OpenPGP")
           /\ ~Contains(isp.err, "does not support OpenPGP")

\* a card status query ran past the detection timeout
StatusQueryTimedOut ==
    \E i \in 1..Len(pcalls) :
        /\ pcalls[i].cmd = "gpg --card-status"
        /\ pcalls[i].killed \/ pcalls[i].took > DetectTimeout

ReportsAbsent == \E i \in 1..Len(report) : report[i] \in {"NOT PRESENT", "No YubiKey detected"}

\* C8: in every workflow that checks token presence, a card status query
\* that exceeds the detection timeout is never reported to the operator as
\* "no YubiKey detected" / "not present".
C8_TimeoutNeverAbsent ==
    (ppc = "done" /\ StatusQueryTimedOut) => ~ReportsAbsent

(***************************************************************************)
(* Properties of the executor (checked under SpecExec).                    *)
(***************************************************************************)
\* C9: RunInteractive returns nil for exit code 2 only when the program is
\* gpg; exit code 2 of another program and every other non-zero exit code
\* of gpg yield an error.
C9_BenignExitScoped ==
    (exResult.done /\ exResult.how = "RunInteractive" /\ exOutcome.kind = "exit")
        => /\ (exName = "gpg" /\ exOutcome.code = 2) => exResult.err = NoError
           /\ (exName # "gpg" /\ exOutcome.code = 2) => exResult.err # NoError
           /\ exOutcome.code \notin {0, 2} => exResult.err # NoError

C9_Witness ==
    /\ exResult.done
    /\ exResult.how = "RunInteractive"
    /\ exName = "git"
    /\ exOutcome.kind = "exit"
    /\ exOutcome.code = 2
    /\ exResult.err # NoError

(***************************************************************************)
(* Properties of the parser (checked under SpecParse).                     *)
(***************************************************************************)
\* the positions of the input that hold a capability letter
Kept(in) == {i \in 1..Len(in) : in[i] \in {"S", "E", "A", "C"}}

\* the k-th of them
KthKept(in, k) == CHOOSE i \in Kept(in) : Cardinality({j \in Kept(in) : j <= i}) = k

\* C10: parseCapabilities returns exactly the characters of its input that
\* are in {S, E, A, C}, in input order, and drops the others.
C10_CapabilitiesFiltered ==
    capsOut.done
        => /\ Len(capsOut.caps) = Cardinality(Kept(capsIn))
           /\ \A k \in 1..Len(capsOut.caps) : capsOut.caps[k] = capsIn[KthKept(capsIn, k)]

C10_Witness ==
    /\ capsOut.done
    /\ capsIn = <<"Z", "S", "C">>
    /\ capsOut.caps = <<"S", "C">>

(***************************************************************************)
(* Properties of the key listing parser (checked under SpecKeyList).       *)
(***************************************************************************)
\* the lines of a listing that start a record
KeyLineIdx(in) == {i \in 1..Len(in) : in[i].head \in {"sec", "ssb"}}

\* the card-no: lines that carry a card number
CardNoIdx(in) == {i \in 1..Len(in) : in[i].head = "card-no:" /\ Len(in[i].rest) >= 1}

\* the number of records started before line i: the record a card-no: line
\* at i follows, 0 when none has been started
RecordBefore(in, i) == Cardinality({j \in KeyLineIdx(in) : j < i})

\* the card number record k must end up with: that of the last card-no:
\* line between the line that started it and the next key line
ExpectedCardNo(in, k) ==
    LET mine == {i \in CardNoIdx(in) : RecordBefore(in, i) = k}
    IN IF mine = {} THEN << >>
       ELSE in[CHOOSE i \in mine : \A j \in mine : j <= i].rest

\* C11: parseKeyList appends one record per key line, and a card-no: line
\* sets CardNo on the most recently appended record only, never on an
\* earlier one, and on none when no record has been appended yet; so the
\* listing (primary, subkey, card-no: 0006 12345678) gives 2 records with
\* CardNo on the second only.
C11_CardNoOnLastRecord ==
    klOut.done
        => /\ Len(klOut.keys) = Cardinality(KeyLineIdx(klIn))
           /\ \A k \in 1..Len(klOut.keys) : klOut.keys[k].CardNo = ExpectedCardNo(klIn, k)

C11_Witness ==
    /\ klOut.done
    /\ klIn = << Line("sec", "", PrimaryKeyID, <<"S", "C">>, "2030-09-04", << >>),
                 Line("ssb", "", SubkeyID, <<"E">>, "2030-09-04", << >>),
                 Line("card-no:", "", << >>, << >>, "", <<"0006", "12345678">>) >>
    /\ Len(klOut.keys) = 2
    /\ klOut.keys[1].CardNo = << >>
    /\ klOut.keys[2].CardNo = <<"0006", "12345678">>

\* C12: a key line whose marker carries the suffix character (sec#, ssb>)
\* starts a record like any other key line, and that record holds the
\* line's kind, key identifier and (when the line has one) expiry date.
C12_SuffixedLineParsed ==
    klOut.done
        => \A i \in KeyLineIdx(klIn) :
              (klIn[i].suffix \in {"#", ">"} /\ klIn[i].keyid # << >> /\ klIn[i].caps # << >>)
                 => LET k == RecordBefore(klIn, i + 1)
                    IN /\ k <= Len(klOut.keys)
                       /\ klOut.keys[k].Type = klIn[i].head
                       /\ klOut.keys[k].KeyID = klIn[i].keyid
                       /\ (klIn[i].expires # "" => klOut.keys[k].Expires # "")

(***************************************************************************)
(* Properties of the card status parser (checked under SpecCardStatus).    *)
(***************************************************************************)
\* a slot line: a name, " key", alignment padding of dots and blanks, ":"
SlotShaped(l) ==
    LET colon == FirstIndex(l, ":")
    IN /\ Len(l) >= 4
       /\ l[1] \notin {" ", ".", ":", "key"}
       /\ l[2] = " "
       /\ l[3] = "key"
       /\ colon >= 4
       /\ \A j \in 4..(colon - 1) : l[j] \in {".", " "}

\* what a slot line names, and the value right of its colon
NameOn(l) == <<l[1]>>

ValueOn(l) == TrimSpace(SubSeq(l, FirstIndex(l, ":") + 1, Len(l)))

\* a slot line whose value is a key
Assigns(l) == SlotShaped(l) /\ ValueOn(l) # << >> /\ ValueOn(l) # <<"[none]">>

C14_NoEntryForNone ==
    csOut.done
        => /\ \A e \in csOut.info.Keys : e.value # <<"[none]">> /\ e.value # << >>
           /\ \A n \in SlotNames :
                 (\A i \in 1..Len(csIn) : ~(Assigns(csIn[i]) /\ NameOn(csIn[i]) = <<n>>))
                    => \A e \in csOut.info.Keys : e.slot # <<n>>

C14_Witness ==
    /\ csOut.done
    /\ csIn = << SlotLine("Signature", <<".", ".">>, <<" ", "[none]">>),
                 SlotLine("Encryption", <<".", ".">>, << >>) >>
    /\ csOut.info.Keys = {}

(***************************************************************************)
(* Properties of the Key Directory Service (checked under SpecService).    *)
(***************************************************************************)
\* the first words of the errors the executor makes
ExecutorMessages == {"failed to execute command", "command failed with exit code"}

\* C15: every operation of the service that fails returns the executor's
\* error wrapped in a message of its own, never the executor's error as
\* it came; this holds for the nine operations, EditKey included.
C15_FailuresWrapped ==
    (svResult.done /\ svPc = "returned" /\ svResult.err # NoError)
        => /\ Head(svResult.err) \notin ExecutorMessages
           /\ svResult.execErr # NoError
                 => /\ svResult.err # svResult.execErr
                    /\ IsSuffix(svResult.execErr, svResult.err)

\* C16: ListSecretKeys fails exactly when the listing command fails; when
\* the command succeeds and lists no key (the filter matches nothing) it
\* returns the empty list and no error.
C16_EmptyListIsNoError ==
    (svOp = "ListSecretKeys" /\ svResult.done)
        => /\ (svResult.err # NoError) <=> (svResult.execErr # NoError)
           /\ (svResult.execErr = NoError /\ KeyLineIdx(svOutcome.proc.stdout) = {})
                 => (svResult.keys = << >> /\ svResult.err = NoError)

C16_Witness ==
    /\ svOp = "ListSecretKeys"
    /\ svResult.done
    /\ svOutcome.proc.kind = "exit"
    /\ svOutcome.proc.code = 0
    /\ svOutcome.proc.stdout = << >>
    /\ svResult.keys = << >>
    /\ svResult.err = NoError

\* C17: the temporary file ImportKey creates exists while it writes and
\* imports, and is gone once ImportKey has returned, whether the import
\* succeeded, the write of the key data failed or gpg --import failed.
C17_TempFileRemoved ==
    /\ svPc \in {"write", "import"} => svName \in svTmp
    /\ (svOp = "ImportKey" /\ svResult.done) => (svName = "" \/ svName \notin svTmp)

C17_Witness ==
    /\ svOp = "ImportKey"
    /\ svResult.done
    /\ svName # ""
    /\ svName \notin svTmp
    /\ svResult.err # NoError
    /\ Head(svResult.err) = "failed to import key"

(***************************************************************************)
(* Properties of the Backup Service (checked under SpecBackup).            *)
(***************************************************************************)
\* C18: a backup directory CreateBackup has returned never changes again:
\* no later invocation, not even one within the same second, creates or
\* writes a file in it.
C18_ReturnedBackupImmutable ==
    \A b \in breturned : bdirs[b.path] = b.dir

(***************************************************************************)
(* Properties of the workflows (checked under SpecFlow).                   *)
(***************************************************************************)
Destructive == {"EditKey", "DeleteSecretKeys", "removeMasterKey"}

\* C19: in every workflow each destructive operation (edit session,
\* deletion of a secret key, removal of the master key) comes after a
\* successful CreateBackup.
C19_BackupBeforeDestructive ==
    \A i \in 1..Len(ftrace) :
        ftrace[i].op \in Destructive
            => \E j \in 1..(i - 1) : ftrace[j].op = "CreateBackup" /\ ftrace[j].ok

(***************************************************************************)
(* More properties of removeMasterKey (checked under Spec).                *)
(***************************************************************************)
ImportCalls == {i \in 1..Len(calls) : calls[i].op = "ImportKey"}

\* C20: with the master key on the machine, a failed subkey export does
\* not end removeMasterKey: the public key export follows, then (when it
\* succeeds) the delete; the subkeys are not imported again; and when
\* public export, delete and public re-import succeed the result is nil.
C20_SubkeyExportTolerated ==
    (Returned /\ Failed("ExportSecretSubkeys"))
        => /\ Invoked("ExportPublicKey")
           /\ ~Failed("ExportPublicKey") => Invoked("DeleteSecretKey")
           /\ Cardinality(ImportCalls) <= 1
           /\ \A i \in ImportCalls : calls[i].arg = publicKey
           /\ (~Failed("ExportPublicKey") /\ ~Failed("DeleteSecretKey") /\ ~Failed("ImportKey"))
                 => (result = NoError /\ Cardinality(ImportCalls) = 1)

C20_Witness ==
    /\ pc = "done"
    /\ Failed("ExportSecretSubkeys")
    /\ Ops = <<"ListSecretKeys", "ExportSecretSubkeys", "ExportPublicKey",
               "DeleteSecretKey", "ImportKey">>
    /\ ~Failed("ImportKey")
    /\ result = NoError

\* C21: removeMasterKey imports the subkeys again only when their export
\* succeeded and gave data (the import then carries that data), there is
\* at most that one import after the public key's, and whether it
\* succeeds or fails removeMasterKey returns nil.
C21_SubkeyReimportOptional ==
    Returned
        => /\ Cardinality(ImportCalls) <= 2
           /\ Cardinality(ImportCalls) = 2
                 => /\ ~Failed("ExportSecretSubkeys")
                    /\ subkeys # << >>
                    /\ calls[Len(calls)].op = "ImportKey"
                    /\ calls[Len(calls)].arg = subkeys
                    /\ result = NoError

C21_Witness ==
    /\ pc = "done"
    /\ Cardinality(ImportCalls) = 2
    /\ calls[Len(calls)].err # NoError
    /\ subkeys # << >>
    /\ result = NoError

\* the short id of a key: the last 16 hex digits of its fingerprint
ShortID(fpr) ==
    IF Len(fpr) > KeyIDLen THEN SubSeq(fpr, Len(fpr) - KeyIDLen + 1, Len(fpr)) ELSE fpr

\* C25: removeMasterKey lists and exports under the short id of the target
\* key (the last 16 hex digits of a 40 digit fingerprint) and deletes
\* under the full fingerprint.
C25_QueriesUseShortID ==
    Returned
        => \A i \in 1..Len(calls) :
              /\ calls[i].op \in {"ListSecretKeys", "ExportSecretSubkeys", "ExportPublicKey"}
                    => calls[i].arg = ShortID(fingerprint)
              /\ calls[i].op = "DeleteSecretKey" => calls[i].arg = fingerprint

\* C27: whenever removeMasterKey returns nil the secret material of the
\* master key is not in the local key store, whatever the fingerprint and
\* whatever the listing (empty, or without a parsable primary key line).
C27_SuccessMeansOffline ==
    (Returned /\ result = NoError) => ~masterPresent

\* C28: when subkey material was captured and the delete succeeded, the
\* subkey material is imported again before removeMasterKey returns,
\* whatever happens to the import of the public key.
C28_SubkeysReimportedAfterDelete ==
    (/\ Returned
     /\ subkeys # << >>
     /\ \E i \in 1..Len(calls) : calls[i].op = "DeleteSecretKey" /\ calls[i].err = NoError)
        => \E i, j \in ImportCalls : i < j /\ calls[j].arg = subkeys

(***************************************************************************)
(* The probe order of SupportsOpenPGP (checked under SpecPresence).  The   *)
(* second command of a detection is `ykman info`, the third, if any, the   *)
(* card status query of the fallback.                                      *)
(***************************************************************************)
NegativeMarkers == {"Not available", "Disabled"}

PositiveMarkers == {"Enabled", "Available"}

\* the OpenPGP lines of a ykman output that hold a marker
DecisiveLines(out) ==
    {i \in 1..Len(out) :
        out[i].head = "OpenPGP" /\ out[i].markers \cap (NegativeMarkers \cup PositiveMarkers) # {}}

ProbeAnswered == sup.called /\ ppc \in {"workflow", "done"} /\ Len(pcalls) >= 2

\* C22: SupportsOpenPGP runs `ykman info` first; when it succeeds and its
\* first OpenPGP line with a marker holds a negative one the answer is
\* (false, nil) with no card status query, a negative marker winning over
\* a positive one on the same line; when that line holds only positive
\* markers the answer is (true, nil); when ykman failed or no OpenPGP line
\* decides, a card status query follows and supported means it succeeded.
C22_ProbeOrder ==
    ProbeAnswered
        => LET yk == pcalls[2]
               decides == yk.err = NoError /\ DecisiveLines(yk.out) # {}
           IN /\ yk.cmd = "ykman info"
              /\ decides
                    => LET line == yk.out[First(DecisiveLines(yk.out))]
                       IN /\ Len(pcalls) = 2
                          /\ sup.err = NoError
                          /\ sup.supports <=> (line.markers \cap NegativeMarkers = {})
              /\ ~decides
                    => /\ Len(pcalls) = 3
                       /\ pcalls[3].cmd = "gpg --card-status"
                       /\ sup.supports <=> (pcalls[3].err = NoError)
                       /\ sup.supports <=> (sup.err = NoError)

C22_Witness ==
    /\ ProbeAnswered
    /\ pcalls[2].err = NoError
    /\ pcalls[2].out = <<YkLine("OpenPGP", {"Enabled", "Disabled"})>>
    /\ Len(pcalls) = 2
    /\ ~sup.supports
    /\ sup.err = NoError

(***************************************************************************)
(* The order of CreateBackup's writes and its aborts (checked under        *)
(* SpecBackup).                                                            *)
(***************************************************************************)
BackupFiles == {"publicKey", "trustdb", "keyList"}

BackupFailures ==
    {"failed to create backup directory",
     "failed to export public key", "failed to write public key backup",
     "failed to export ownertrust", "failed to write trustdb backup",
     "failed to list secret keys", "failed to write key list backup"}

\* in every directory the public key has been written at least as often as
\* the ownertrust, and the ownertrust at least as often as the key listing;
\* an invocation that is at a later export has written the earlier files
WrittenInOrder ==
    /\ \A t \in Stamps :
          /\ Len(bdirs[t].publicKey) >= Len(bdirs[t].trustdb)
          /\ Len(bdirs[t].trustdb) >= Len(bdirs[t].keyList)
          /\ bdirs[t].publicKey # << >> => bdirs[t].exists
    /\ bpc = "trust" => Len(bdirs[bstamp].publicKey) > Len(bdirs[bstamp].trustdb)
    /\ bpc = "list" => Len(bdirs[bstamp].trustdb) > Len(bdirs[bstamp].keyList)
    /\ bresult.err # NoError => bresult.path = 0 - 1

\* the step in which an invocation of CreateBackup ends with an error
Aborts == bresult'.err # NoError /\ (bpc # "ready" \/ bcount' # bcount)

\* a step writes at most one file, appends to it, removes no directory,
\* and an abort writes nothing, ends the invocation and returns a
\* descriptive error with an empty path
BackupStep ==
    /\ \A t \in Stamps :
          /\ bdirs[t].exists => bdirs'[t].exists
          /\ \A f \in BackupFiles : IsPrefix(bdirs[t][f], bdirs'[t][f])
          /\ bdirs'[t].publicKey # bdirs[t].publicKey => (bpc = "public" /\ t = bstamp)
          /\ bdirs'[t].trustdb # bdirs[t].trustdb => (bpc = "trust" /\ t = bstamp)
          /\ bdirs'[t].keyList # bdirs[t].keyList => (bpc = "list" /\ t = bstamp)
    /\ Aborts
          => /\ bdirs' = bdirs
             /\ bpc' = "ready"
             /\ bresult'.path = 0 - 1
             /\ Head(bresult'.err) \in BackupFailures

\* C23: CreateBackup writes the public key, then the ownertrust, then the
\* key listing; the first failing export or write ends it with a
\* descriptive error and an empty path, nothing later is written, and the
\* directory stays with the files written so far.
C23_AbortLeavesPartialBackup == []WrittenInOrder /\ [][BackupStep]_vars

C23_Witness ==
    /\ bpc = "ready"
    /\ bresult.path = 0 - 1
    /\ bresult.err # NoError
    /\ Head(bresult.err) = "failed to export ownertrust"
    /\ bdirs[bstamp].exists
    /\ Len(bdirs[bstamp].publicKey) = 1
    /\ bdirs[bstamp].trustdb = << >>
    /\ bdirs[bstamp].keyList = << >>

(***************************************************************************)
(* The names of the Keys map (checked under SpecCardStatus).               *)
(***************************************************************************)
CardSlots == {<<"Signature">>, <<"Encryption">>, <<"Authentication">>}

\* C24: the Keys map of parseCardStatus only has entries named Signature,
\* Encryption or Authentication: no other line of a card status output
\* ("General key info..: ...") makes an entry.
C24_OnlySlotNames ==
    csOut.done => \A e \in csOut.info.Keys : e.slot \in CardSlots

(***************************************************************************)
(* The fallback of runVerify's search (checked under SpecSelect).          *)
(***************************************************************************)
\* the listed signing subkeys that live on a card
CardResidentSigning ==
    {i \in 1..Len(selKeys) :
        /\ selKeys[i].Type = "ssb"
        /\ "S" \in Range(selKeys[i].Capabilities)
        /\ selKeys[i].CardNo # << >>}

\* the token reports no signature key and no signing subkey's card-no is
\* the serial of the token
FallbackCase ==
    /\ selOut.done
    /\ selInfo.ok
    /\ ~\E e \in selInfo.info.Keys : e.slot = <<"Signature">>
    /\ \A i \in CardResidentSigning :
          selKeys[i].CardNo \notin {cardSerialFormatted(selInfo.info.Serial),
                                    cardSerialFormattedAlt(selInfo.info.Serial)}
    /\ CardResidentSigning # {}

\* C26: when the token reports no signature key and no card-no matches its
\* serial, the verify workflow takes the most recent, that is the last
\* listed, card-resident signing subkey.
C26_FallbackPicksLast ==
    FallbackCase
        => selOut.id = selKeys[CHOOSE i \in CardResidentSigning :
                                   \A j \in CardResidentSigning : j <= i].KeyID

(***************************************************************************)
(* The imported master key in the workflows (checked under SpecFlow).      *)
(***************************************************************************)
\* C29: in the extend and revoke workflows, once the master key file has
\* been imported, removeMasterKey is invoked before the workflow returns,
\* also when the prompt that follows or the edit session fails.
C29_ImportedMasterIsRemoved ==
    (fpc = "end" /\ fw \in {"extend", "revoke"})
        => \A i \in 1..Len(ftrace) :
              (ftrace[i].op = "ImportMasterKey" /\ ftrace[i].ok)
                 => \E j \in (i + 1)..Len(ftrace) : ftrace[j].op = "removeMasterKey"

(***************************************************************************)
(* The guard of the cleanup loop (checked under SpecCleanup).              *)
(***************************************************************************)
ToUpper(c) ==
    CASE c = "a" -> "A" [] c = "b" -> "B" [] c = "c" -> "C"
      [] c = "d" -> "D" [] c = "e" -> "E" [] c = "f" -> "F"
      [] OTHER -> c

\* the key gpg takes an identifier for: hex digits in either case, a key
\* id being the last 16 digits of the fingerprint
DenotedKey(id) == ShortID([k \in 1..Len(id) |-> ToUpper(id[k])])

DeleteCommands == {"--delete-secret-keys", "--delete-keys"}

\* C30: the cleanup workflow issues no delete command, secret or public,
\* for the configured primary key, whether the operator types its key id,
\* its fingerprint or another spelling of either.
C30_PrimaryNeverDeleted ==
    \A i \in 1..Len(clCmds) :
        clCmds[i].cmd \in DeleteCommands => DenotedKey(clCmds[i].arg) # PrimaryKeyID

====
